---- MODULE Spec2Model ----
(***************************************************************************)
(* State machine of the bambu-monitor control plane: the per-printer state *)
(* store and its single writer (StateOrchestrator), the SSE stream service *)
(* and the per-printer connection supervision.                             *)
(*                                                                         *)
(* The process runs one cooperative event loop.  A step of this model is a *)
(* run of code between two real suspension points (network I/O, sleeps,    *)
(* awaiting another task); an "await" of a coroutine that never suspends   *)
(* (an uncontended asyncio.Lock, a coroutine doing only blocking work) is  *)
(* part of the same step.                                                  *)
(***************************************************************************)
EXTENDS Integers, Sequences, FiniteSets, TLC

None == "none"

(***************************************************************************)
(* Bounds of the model.                                                    *)
(***************************************************************************)
MaxUpdates == 4
MaxStreamUpdates == 2
MaxSwitches == 2
MaxTime == 26
MaxMessages == 2
MaxJobs == 2
MaxFlood == 201
FileChunks == 2
MaxEvents == 2
MaxSessions == 3
MaxCameraTime == 92
MaxFtpTime == 3000
MaxUploads == 2
MaxFrames == 3
MaxPayloads == 3
MaxRetries == 4
MaxDeletes == 4
MaxObjects == 8
MaxParses == 5
MaxRequests == 7
MaxAdminTime == 90
MaxQueueJobs == 4
MaxRebuilds == 3
MaxCalls == 2
UploadChunks == 2
MaxTasks == 2

\* EventService.__init__(max_events_per_printer=50)
max_events_per_printer == 50

\* WebRTCSessionManager(max_viewers=2), ttl_seconds: int = 45
max_viewers == 2
ttl_seconds == 45

\* FTPSService._stable_connect_delay = 1.0 (seconds), in milliseconds
_stable_connect_delay == 1000

\* BambuCameraEngine.DEFAULT_STALL_THRESHOLD
DEFAULT_STALL_THRESHOLD == 3
_rate_window_s == 60
_rate_limit == 5

Printers == {"p1", "p2"}
SubIds == {"s1", "s2"}

(***************************************************************************)
(* PART 1 - state store, orchestrator (single writer) and stream service   *)
(***************************************************************************)
VARIABLES
    master,      \* _PrinterStore.master_data: the deep-merged raw print section
    state,       \* _PrinterStore.state: the typed PrinterState snapshot
    applied,     \* number of writer operations applied to each store
    versions,    \* StateStreamService._versions
    snapshots,   \* StateStreamService._snapshots (with the store sequence it was taken at)
    subscribers, \* StateStreamService._subscribers (ids of the live _Subscriber objects)
    sub          \* per subscriber id: its filter, its queue and its SSE connection

varsState == <<master, state, applied, versions, snapshots, subscribers, sub>>

\* Part 2: the active printer's FTPS and camera services under the orchestrator.
VARIABLES
    mqtt_connected,  \* MQTTService.is_connected() of the active printer
    orch,            \* ConnectionOrchestrator: _mqtt_online, _services_started, position
    ftps,            \* FTPSService: _started, _reconnect_paused, _is_reconnecting, ...
    loop,            \* the _reconnect_loop tasks that exist, by task
    op,              \* a file operation of the API (list_files_with_navigation)
    camera,          \* CameraService._started, its engine and the engine's pause flag
    paused_attempt   \* history: a connection attempt began while _reconnect_paused

varsFtps == <<mqtt_connected, orch, ftps, loop, op, camera, paused_attempt>>

\* Part 3: switching the active printer (ServiceRegistry.reconfigure).
VARIABLES
    active_printer,     \* StateRepository._active_printer_id
    generation,         \* how many times _build_services has replaced the services
    services,           \* per generation: the MQTT/FTPS/camera service objects built
    conn,               \* registry.connection_orchestrator (the current one)
    presence,           \* PrinterPresenceService._is_running and its watchers' tasks
    lifecycle_started,  \* LifecycleManager._started
    forwarded_active    \* history: a watcher forwarded a payload of the active printer

varsSwitch == <<active_printer, generation, services, conn, presence, lifecycle_started,
                forwarded_active>>

\* Part 4: the MQTT sessions and the orchestrator's poll, in seconds of the
\* monotonic clock.
VARIABLES
    clock,            \* time.monotonic()
    mqtt_service,   \* MQTTService of the active printer: _client, _last_message_at, its loop
    cache_watcher,  \* a PrinterCacheWatcher of another printer: its loop, _heartbeat_sent
    gate,           \* ConnectionOrchestrator: its next tick, the dependents' pause flags
    silence,        \* history: last sign of life of the session, when the pause followed
    received        \* number of inbound messages so far

varsLive == <<clock, mqtt_service, cache_watcher, gate, silence, received>>

\* Part 5: POST /skip-objects.
VARIABLES
    print_job,        \* the active print: state.print.file, its plate, the bundle cache
    skipped_objects,  \* state.print.skipped_objects
    sent              \* history: the request that was last published, if any

varsSkip == <<print_job, skipped_objects, sent>>

\* Part 6: the prepare jobs of one printer's PrintJobService.
VARIABLES
    jobs,           \* every job submitted: file, its future, the position of its task
    prepare_queue,  \* TaskQueue._queue: the jobs the worker has not taken yet
    active_jobs,    \* PrintJobService._active_jobs[printer_id] (0: no entry)
    worker,         \* the job whose task TaskQueue._worker awaits (0: it waits for work)
    job_state,      \* PrintJobService._job_state[printer_id]
    cache,          \* data/print-cache/<printer>/: temp file, cached file, meta file
    listing         \* the printer's storage as list_files_with_navigation reports it

varsPrep == <<jobs, prepare_queue, active_jobs, worker, job_state, cache, listing>>

\* Part 7: the MQTT session that feeds each printer's store.
VARIABLES
    session   \* per printer: "open" while its MQTT service or watcher is in a session

varsSess == <<session>>

\* Part 8: the event service (a hook of the state notifier).
VARIABLES
    event_snapshots,  \* EventService._snapshots: (printer, channel) -> normalized value
    events            \* EventService._events: per printer, newest first

varsEvents == <<event_snapshots, events>>

\* Part 9: the WebRTC viewer sessions of one CameraService.
VARIABLES
    monotonic,   \* time.monotonic(), in seconds
    _sessions,   \* WebRTCSessionManager._sessions: session id -> time last stored
    issued,      \* how many session ids uuid4 has produced
    viewers      \* history: per id, whether claim returned it, whether it was
                 \* released, and when it was claimed or last kept alive

varsRtc == <<monotonic, _sessions, issued, viewers>>

\* Part 10: the FTPS status an FTPSService publishes, in milliseconds.
VARIABLES
    ftp_time,       \* the event loop's clock
    link,           \* FTPSService: _client, when it connected, _ftps_status
    stable_connect  \* FTPSService._stable_connect_task and the end of its sleep

varsStable == <<ftp_time, link, stable_connect>>

\* Part 11: uploads through one FTPSService.
VARIABLES
    _upload_state,  \* FTPSService._upload_state: active, status, generation
    upload          \* the upload_stream call: its position, _upload_cancel_event,
                    \* _upload_cancel_requested, how the call ended

varsUpload == <<_upload_state, upload>>

\* Part 12: the camera engine's loop and the status it publishes.
VARIABLES
    cam_engine  \* BambuCameraEngine: _is_streaming, _reconnect_paused, _status,
                \* _stall_count, the position of _camera_loop, frame_count

varsCam == <<cam_engine>>

\* Part 13: the raw master of one store as nested JSON.
VARIABLES
    master_data,  \* _PrinterStore.master_data
    merged        \* history: each payload consumed, with the master before it

varsMerge == <<master_data, merged>>

\* Part 14: the delays of the retry loops, in milliseconds.
VARIABLES
    retry_attempt,  \* per retry loop: Backoff._attempt of its Backoff
    retry_failures, \* history: consecutive failures of the loop since its last success
    last_retry      \* history: the loop that failed last and the delay it then slept

varsRetry == <<retry_attempt, retry_failures, last_retry>>

\* Part 15: the printer definitions of app.json and the delete requests.
VARIABLES
    config,          \* app.json: [printers, default_printer_id]
    settings_printer_id,  \* registry.settings.printer_id
    delete_req,      \* per request: where delete_printer stands and what it listed
    deletes_started  \* history: the number of delete requests begun

varsConfig == <<config, settings_printer_id, delete_req, deletes_started>>

\* Part 16: the objects of a printer's store and of the values its readers hold.
VARIABLES
    heap,       \* the objects in memory: address -> [text, child]
    allocated,  \* the number of objects allocated so far
    store_refs, \* _PrinterStore: the addresses of .state and .master_data
    returned,   \* per reader: the address of the value it was handed, 0 if none
    written     \* history: the contents the writer last gave .state and .master_data

varsCopy == <<heap, allocated, store_refs, returned, written>>

\* Part 17: the remaining time and finish time the print parser assembles.
VARIABLES
    mc_remaining_time, \* the value the last payload carried under that key
    print_status,      \* PrintStatus: [remaining_time, finish_time]
    parses             \* history: the number of payloads parsed

varsRemain == <<mc_remaining_time, print_status, parses>>

\* Part 18: the rate limit of the admin endpoints.
VARIABLES
    wall_clock,     \* time.time(), in seconds
    _hits,          \* per source ip: the deque of the times it holds
    passed,         \* history: per source ip, the times of all requests the limiter let through
    last_request,   \* history: the last request: [ip, time, status]
    limited,        \* history: per source ip, the number of requests answered 429
    admin_requests  \* history: the number of requests made

varsAdmin == <<wall_clock, _hits, passed, last_request, limited, admin_requests>>

\* Part 19: what the SSE clients hold.
VARIABLES
    client_state  \* history: per subscriber, the state a client has after applying
          \* its seeding snapshot and every event queued for it so far

varsHeld == <<client_state>>

\* Part 20: the prepare queue's worker and the shutdown of the job service.
VARIABLES
    tq,         \* TaskQueue: [running, worker, current]: where its worker task stands
    tq_queue,   \* TaskQueue._queue
    tq_jobs,    \* every job submitted: [future, task]
    tq_active,  \* PrintJobService._active_jobs[printer_id] (0: no entry)
    sd          \* where PrintJobService.shutdown stands

varsQueue == <<tq, tq_queue, tq_jobs, tq_active, sd>>

\* Part 21: the FTPS services the registry has built and their status listener.
VARIABLES
    settings_id,        \* ServiceRegistry.settings.printer_id
    ftps_built,         \* the number of FTPSService objects built so far
    ftps_instances,     \* per FTPSService object: its printer, client, status, debounce task
    printer_ftps_status,\* per printer: PrinterState.ftps_status in its store
    last_status_write   \* history: the last set_ftps_status call: [instance, printer]

varsWire == <<settings_id, ftps_built, ftps_instances, printer_ftps_status, last_status_write>>

\* Part 22: the extraction directory of the cached file.
VARIABLE extract_dir   \* the version of the cached file it was extracted from

varsExtract == <<extract_dir>>

\* Part 23: upload_stream calls that overlap on one FTPS service.
VARIABLES
    upload_status,              \* FTPSService._upload_state with its progress
    _upload_cancel_event,       \* the event the attribute refers to, 0: None
    events_set,                 \* the events that are set
    _upload_cancel_requested,   \* FTPSService._upload_cancel_requested
    _upload_future,             \* the call whose executor future is pending, 0: None
    upload_calls                \* per upload_stream call: its position and its thread

varsCalls == <<upload_status, _upload_cancel_event, events_set, _upload_cancel_requested,
               _upload_future, upload_calls>>

\* Part 24: the loop tasks of the services that restart themselves.
VARIABLE lifecycle  \* per service: its running flag, its task attribute, the
                    \* tasks it has made, the restarts scheduled, its last stop()

varsLife == <<lifecycle>>

vars == <<varsState, varsFtps, varsSwitch, varsLive, varsSkip, varsPrep, varsSess, varsEvents, varsRtc, varsStable, varsUpload, varsCam, varsMerge, varsRetry, varsConfig, varsCopy, varsRemain, varsAdmin, varsHeld, varsQueue, varsWire, varsExtract, varsCalls, varsLife>>


\* Raw gcode_state strings a printer sends, and the file paths it reports.
RawGcode == {"RUNNING", "FINISHED"}
NoPath == <<>>
Paths == {<<"sd", "cube">>}
Urls == {<<"cube">>, <<"vase">>}

\* models.domain.normalize_gcode_state: alias table, unknown -> UNKNOWN.
normalize_gcode_state(raw) ==
    CASE raw = "RUNNING" -> "RUNNING"
      [] raw = "PRINTING" -> "RUNNING"
      [] raw = "FINISH" -> "FINISH"
      [] raw = "FINISHED" -> "FINISH"
      [] raw = "FAILED" -> "FAILED"
      [] raw = "FAIL" -> "FAILED"
      [] OTHER -> "UNKNOWN"

\* print_again._extract_filename: last component after splitting on / and \.
\* A path is the sequence of its components; NoPath is both None and "".
extract_filename(value) ==
    IF value = NoPath THEN None
    ELSE IF value[Len(value)] = "" THEN None ELSE value[Len(value)]

\* PrintJobService._extract_url_filename: the name of the url's path.
extract_url_filename(url) ==
    IF url = NoPath THEN NoPath ELSE <<url[Len(url)]>>

\* PrintJobService._set_last_sent_project_file: the record built from a sent payload.
LastSentRecord(url, param) ==
    [command |-> "project_file", url |-> url, file |-> extract_url_filename(url),
     param |-> param]

\* state.last_sent_project_file = None
NoLastSent == [command |-> None, url |-> NoPath, file |-> NoPath, param |-> None]

LastSents ==
    {LastSentRecord(u, "plate_1") : u \in Urls} \cup {LastSentRecord(<<"cube">>, None)}

\* models.domain.PrintAgainState defaults.
NoPayload == [url |-> NoPath, plate |-> None]
DefaultPrintAgain ==
    [visible |-> FALSE, enabled |-> FALSE, payload |-> NoPayload, reason |-> None]

\* print_again.build_print_again_payload
build_print_again_payload(last_sent) ==
    IF last_sent = NoLastSent THEN NoPayload
    ELSE IF last_sent.command # "project_file" THEN NoPayload
    ELSE IF last_sent.url = NoPath \/ last_sent.param = None THEN NoPayload
    ELSE [url |-> last_sent.url, plate |-> last_sent.param]

\* print_again.evaluate_print_again_state
evaluate_print_again_state(gcode_state, file, last_sent, online) ==
    IF gcode_state \notin {"FINISH", "FAILED"}
    THEN [DefaultPrintAgain EXCEPT !.reason = "print_in_progress"]
    ELSE LET payload == build_print_again_payload(last_sent) IN
         IF payload = NoPayload
         THEN [DefaultPrintAgain EXCEPT !.reason = "no_payload"]
         ELSE LET sent_a == extract_filename(last_sent.file)
                  sent_file == IF sent_a # None THEN sent_a ELSE extract_filename(last_sent.url)
                  current_file == extract_filename(file)
              IN IF sent_file = None \/ current_file = None \/ sent_file # current_file
                 THEN [DefaultPrintAgain EXCEPT !.reason = "file_mismatch"]
                 ELSE [visible |-> TRUE, enabled |-> online, payload |-> payload,
                       reason |-> IF online THEN None ELSE "printer_offline"]

\* print_again.update_print_again_state
update_print_again_state(st) ==
    [st EXCEPT !.print_again =
        evaluate_print_again_state(st.gcode_state, st.file, st.last_sent_project_file,
                                   st.printer_online)]

\* models.domain.PrinterState defaults (the fields the model follows).
DefaultState ==
    [printer_online |-> FALSE, gcode_state |-> "UNKNOWN", file |-> NoPath,
     last_sent_project_file |-> NoLastSent, print_again |-> DefaultPrintAgain,
     total_ams |-> 0, ftps_status |-> "disconnected", camera_status |-> "stopped",
     camera_frame |-> None]

\* The ams section is the sequence of its units; an empty section is falsy.
NoAms == <<>>
DefaultMaster == [gcode_state |-> None, gcode_file |-> NoPath, ams |-> NoAms]

\* StateOrchestrator._deep_merge on one leaf: None, "", "?", "0/0" and blank
\* strings are "no update".
IsSentinel(v) == v \in {None, "", "?", "0/0", " "}
merge_leaf(old, new) == IF IsSentinel(new) THEN old ELSE new
merge_path(old, new) == IF new = NoPath THEN old ELSE new

_deep_merge(m, payload) ==
    [gcode_state |-> merge_leaf(m.gcode_state, payload.gcode_state),
     gcode_file |-> merge_path(m.gcode_file, payload.gcode_file),
     ams |-> IF payload.ams = NoAms THEN m.ams ELSE payload.ams]

\* StateAssembler.assemble: state.print is rebuilt from the master (so print_again
\* starts from its default), ams is parsed when the master has an ams section,
\* and print_again is derived last.
assemble(m, st) ==
    LET parsed == [st EXCEPT !.gcode_state = normalize_gcode_state(m.gcode_state),
                             !.file = m.gcode_file,
                             !.print_again = DefaultPrintAgain]
        with_ams == IF m.ams # NoAms THEN [parsed EXCEPT !.total_ams = Len(m.ams)] ELSE parsed
    IN update_print_again_state(with_ams)

\* Inputs of the writer operations.
AmsSections == {NoAms, <<"ams0">>}
PrintPayloads ==
    [gcode_state : RawGcode \cup {None}, gcode_file : Paths \cup {NoPath}, ams : AmsSections]
FtpsStatuses == {"disconnected", "connected"}
CameraStatuses == {"stopped", "streaming"}
Frames == {"frame1"}
\* get_server_time() as read by one serialization, measured from the instant
\* the cached snapshot was serialized: the same instant, or later.
SnapshotInstant == "t0"
ServerTimes == {SnapshotInstant, "later"}

(***************************************************************************)
(* StateStreamService                                                      *)
(***************************************************************************)
QUEUE_MAXSIZE == 200

NoSnapshot == [present |-> FALSE, state |-> DefaultState, server_time |-> SnapshotInstant]
\* The None item that tells an SSE generator to stop.
Sentinel == [event |-> "close", id |-> 0, printer_id |-> None, seq |-> 0]
IdleSub == [status |-> "idle", printer_id |-> None, queue |-> <<>>, received |-> <<>>]

\* StateStreamService._serialize_state: the state dict plus server_info.
_serialize_state(st, now) == [present |-> TRUE, state |-> st, server_time |-> now]

\* self._snapshots[printer_id] = state_dict
cache_snapshot(p, current) ==
    snapshots' = [snapshots EXCEPT ![p] = [current EXCEPT !.server_time = SnapshotInstant]]

\* StateStreamService._diff_dict: the paths whose value differs.
_diff_dict(previous, current) ==
    {k \in DOMAIN current.state : previous.state[k] # current.state[k]}
        \cup (IF previous.server_time # current.server_time THEN {"server_info"} ELSE {})

\* A version counter that is read but not advanced.
next_version_stale(p) == versions[p]

\* The version an emitted snapshot or diff gets: self._versions.get(id, 0) + 1.
next_version(p) == versions[p] + 1

\* A queue that hands out the newest item first.
put_nowait_lifo(queue, item) == <<item>> \o queue

\* asyncio.Queue.put_nowait: FIFO.
put_nowait(queue, item) == Append(queue, item)

\* A broadcast that enqueues the sentinel but leaves a full subscriber subscribed.
_broadcast_keeping_subscribers(p, payload) ==
    LET targets == {s \in subscribers : sub[s].printer_id \in {None, p}}
        dead == {s \in targets : Len(sub[s].queue) >= QUEUE_MAXSIZE}
    IN /\ subscribers' = subscribers
       /\ sub' = [s \in SubIds |->
                    IF s \in dead THEN [sub[s] EXCEPT !.queue = <<Sentinel>>]
                    ELSE IF s \in targets
                         THEN [sub[s] EXCEPT !.queue = put_nowait(@, payload)]
                         ELSE sub[s]]

\* StateStreamService._broadcast: every subscriber whose filter matches gets
\* the payload; a subscriber whose queue is full is dropped, its queue drained
\* and the sentinel queued.
_broadcast(p, payload) ==
    LET targets == {s \in subscribers : sub[s].printer_id \in {None, p}}
        dead == {s \in targets : Len(sub[s].queue) >= QUEUE_MAXSIZE}
    IN /\ subscribers' = subscribers \ dead
       /\ sub' = [s \in SubIds |->
                    IF s \in dead THEN [sub[s] EXCEPT !.queue = <<Sentinel>>]
                    ELSE IF s \in targets
                         THEN [sub[s] EXCEPT !.queue = put_nowait(@, payload)]
                         ELSE sub[s]]

\* StateStreamService._build_diff_payload: "snapshot" when nothing is cached,
\* nothing when no path changed, else "diff"; an emitted event bumps the version
\* and replaces the cached snapshot.
_build_diff_kind(p, current) ==
    IF ~snapshots[p].present THEN "snapshot"
    ELSE IF _diff_dict(snapshots[p], current) = {} THEN "none" ELSE "diff"

\* StateNotifier.notify -> StateStreamService._handle_state_update
notify(p, st, now, seqno) ==
    LET current == _serialize_state(st, now)
        kind == _build_diff_kind(p, current)
        payload == [event |-> kind, id |-> next_version(p), printer_id |-> p, seq |-> seqno]
    IN IF kind = "none"
       THEN UNCHANGED <<versions, snapshots, subscribers, sub>>
       ELSE /\ versions' = [versions EXCEPT ![p] = payload.id]
            /\ cache_snapshot(p, current)
            /\ _broadcast(p, payload)

(***************************************************************************)
(* StateOrchestrator: the writer operations.  Each one mutates the store   *)
(* under the store lock and then notifies the hooks with the deep copy it  *)
(* took; nothing suspends between the two, so each is one step.            *)
(***************************************************************************)
\* The number of writer operations applied so far, over all stores.
Applied == applied["p1"] + applied["p2"]

\* StateRepository.update_store followed by StateNotifier.notify
commit(p, st, now) ==
    /\ state' = [state EXCEPT ![p] = st]
    /\ applied' = [applied EXCEPT ![p] = @ + 1]
    /\ notify(p, st, now, applied[p] + 1)

update_print_data(p, payload, now) ==
    /\ master' = [master EXCEPT ![p] = _deep_merge(@, payload)]
    /\ commit(p, assemble(master'[p], state[p]), now)

set_last_sent_project_file(p, record, now) ==
    /\ commit(p, update_print_again_state(
                    [state[p] EXCEPT !.last_sent_project_file = record]), now)
    /\ UNCHANGED master

set_printer_online(p, online, now) ==
    /\ commit(p, [state[p] EXCEPT !.printer_online = online,
                                  !.total_ams = IF online THEN @ ELSE 0], now)
    /\ UNCHANGED master

set_ftps_status(p, status, now) ==
    /\ state[p].ftps_status # status
    /\ commit(p, [state[p] EXCEPT !.ftps_status = status], now)
    /\ UNCHANGED master

set_camera_status(p, status, now) ==
    /\ state[p].camera_status # status
    /\ commit(p, [state[p] EXCEPT !.camera_status = status], now)
    /\ UNCHANGED master

\* update_camera_frame stores the frame and notifies nobody.
update_camera_frame(p, frame) ==
    /\ state' = [state EXCEPT ![p].camera_frame = frame]
    /\ applied' = [applied EXCEPT ![p] = @ + 1]
    /\ UNCHANGED <<master, versions, snapshots, subscribers, sub>>

(***************************************************************************)
(* GET /state/stream                                                       *)
(***************************************************************************)
\* stream_state: subscribe, then build_snapshot (StateRepository.get_state, bump
\* the version, cache the snapshot); the generator yields the snapshot first.
stream_state(s, p, now) ==
    /\ sub[s].status = "idle"
    /\ subscribers' = subscribers \cup {s}
    /\ versions' = [versions EXCEPT ![p] = next_version(p)]
    /\ cache_snapshot(p, _serialize_state(state[p], now))
    /\ sub' = [sub EXCEPT ![s] =
                 [status |-> "open", printer_id |-> p, queue |-> <<>>,
                  received |-> <<[event |-> "snapshot", id |-> next_version(p),
                                  printer_id |-> p, seq |-> applied[p]]>>]]
    /\ UNCHANGED <<master, state, applied>>

\* event_stream: one queue item is taken and sent; the sentinel ends the stream
\* and the finally clause unsubscribes.
event_stream(s) ==
    /\ sub[s].status = "open"
    /\ sub[s].queue # <<>>
    /\ LET item == Head(sub[s].queue) IN
         IF item = Sentinel
         THEN /\ sub' = [sub EXCEPT ![s].status = "closed", ![s].queue = Tail(@)]
              /\ subscribers' = subscribers \ {s}
         ELSE /\ sub' = [sub EXCEPT ![s].queue = Tail(@),
                                    ![s].received = Append(@, item)]
              /\ UNCHANGED subscribers
    /\ UNCHANGED <<master, state, applied, versions, snapshots>>

\* The client goes away: request.is_disconnected() ends the generator.
client_disconnect(s) ==
    /\ sub[s].status = "open"
    /\ sub' = [sub EXCEPT ![s].status = "closed"]
    /\ subscribers' = subscribers \ {s}
    /\ UNCHANGED <<master, state, applied, versions, snapshots>>

(***************************************************************************)
(* PART 2 - the active printer's FTPS and camera services under the        *)
(* connection orchestrator's gate                                          *)
(***************************************************************************)
\* The _reconnect_loop tasks that can exist at a time; NoTask is "no task".
LoopIds == {"loop1", "loop2"}
NoTask == None

FreeLoops == {i \in LoopIds : loop[i] = "none"}
NewLoop == CHOOSE i \in FreeLoops : TRUE

\* BambuFtpClient.is_connected() of self._client
client_connected(f) == f.client = "connected"

\* FTPSService._start_reconnection, as a function of the service and its tasks:
\* nothing when a loop is believed running or reconnecting is paused, else a new
\* _reconnect_loop task replaces the tracked one.
starts_loop(f) == ~f.is_reconnecting /\ ~f.reconnect_paused

_start_reconnection(f) ==
    IF starts_loop(f)
    THEN [f EXCEPT !.is_reconnecting = TRUE, !.reconnect_task = NewLoop]
    ELSE f

loops_after_start(f, lp) ==
    IF starts_loop(f) THEN [lp EXCEPT ![NewLoop] = "sleeping"] ELSE lp

\* A step that may create a task needs a task to exist within the bound.
CanStart(f) == starts_loop(f) => FreeLoops # {}

\* FTPSService._connect_internal up to the network: BambuFtpClient().connect(...)
\* is awaited, by the task `who`, holding the connection lock.
begin_attempt(f, who) == [f EXCEPT !.lock = who, !.client = "none"]

\* FTPSService._connect_internal, success branch.
connect_succeeded(f) ==
    [f EXCEPT !.client = "connected", !.fresh = TRUE, !.is_reconnecting = FALSE,
              !.lock = "free"]

\* FTPSService._connect_internal, failure branch (before _start_reconnection).
connect_failed(f) == [f EXCEPT !.client = "none", !.lock = "free"]

\* FTPSService.set_reconnect_paused
set_reconnect_paused(f, paused) ==
    IF paused /\ f.reconnect_task # NoTask /\ loop[f.reconnect_task] # "none"
    THEN [f EXCEPT !.reconnect_paused = TRUE, !.reconnect_task = NoTask,
                   !.is_reconnecting = FALSE,
                   !.lock = IF loop[f.reconnect_task] = "connecting" THEN "free" ELSE @]
    ELSE [f EXCEPT !.reconnect_paused = paused]

\* The tracked loop task is cancelled by set_reconnect_paused(True).
loops_after_pause(f, paused) ==
    IF paused /\ f.reconnect_task # NoTask
    THEN [loop EXCEPT ![f.reconnect_task] = "none"]
    ELSE loop

\* CameraService.set_reconnect_paused: only an existing engine takes the flag.
camera_set_reconnect_paused(c, paused) ==
    IF c.engine THEN [c EXCEPT !.reconnect_paused = paused] ELSE c

\* CameraService.start: a new engine (not paused) and the relay.
camera_start(c) ==
    IF c.started THEN c
    ELSE [started |-> TRUE, engine |-> TRUE, reconnect_paused |-> FALSE]

\* ConnectionOrchestrator._ensure_camera_running
_ensure_camera_running(o, c) ==
    IF o.started_camera THEN c ELSE camera_start(camera_set_reconnect_paused(c, FALSE))

\* An attempt that begins is recorded with the pause flag it began under.
note_attempt(f) == paused_attempt' = (paused_attempt \/ f.reconnect_paused)

\* The printer's MQTT reports arrive / stop arriving (is_connected() changes).
mqtt_report ==
    /\ ~mqtt_connected
    /\ mqtt_connected' = TRUE
    /\ UNCHANGED <<orch, ftps, loop, op, camera, paused_attempt>>

mqtt_silent ==
    /\ mqtt_connected
    /\ mqtt_connected' = FALSE
    /\ UNCHANGED <<orch, ftps, loop, op, camera, paused_attempt>>

\* ConnectionOrchestrator._tick with MQTT not live: _pause_dependents.
tick_pause ==
    /\ orch.pc = "idle"
    /\ ~mqtt_connected
    /\ orch' = [orch EXCEPT !.mqtt_online = FALSE]
    /\ ftps' = set_reconnect_paused(ftps, TRUE)
    /\ loop' = loops_after_pause(ftps, TRUE)
    /\ camera' = camera_set_reconnect_paused(camera, TRUE)
    /\ UNCHANGED <<mqtt_connected, op, paused_attempt>>

\* ConnectionOrchestrator._tick with MQTT live: _resume_dependents clears both
\* flags, then _ensure_ftps_running and _ensure_camera_running.  The first
\* FTPSService.start() awaits connect(); the tick goes on when it returns.
tick_resume ==
    /\ orch.pc = "idle"
    /\ mqtt_connected
    /\ LET cleared == set_reconnect_paused(ftps, FALSE)
           cam == camera_set_reconnect_paused(camera, FALSE)
       IN IF orch.started_ftps
          THEN /\ ftps' = cleared
               /\ orch' = [orch EXCEPT !.mqtt_online = TRUE, !.started_camera = TRUE]
               /\ camera' = _ensure_camera_running(orch, cam)
               /\ UNCHANGED paused_attempt
          ELSE /\ ftps.lock = "free"
               /\ IF client_connected(cleared)
                  THEN /\ ftps' = [cleared EXCEPT !.started = TRUE]
                       /\ orch' = [orch EXCEPT !.mqtt_online = TRUE, !.started_ftps = TRUE,
                                               !.started_camera = TRUE]
                       /\ camera' = _ensure_camera_running(orch, cam)
                       /\ UNCHANGED paused_attempt
                  ELSE /\ ftps' = begin_attempt([cleared EXCEPT !.started = TRUE], "start")
                       /\ orch' = [orch EXCEPT !.mqtt_online = TRUE, !.pc = "ftps_start"]
                       /\ camera' = cam
                       /\ note_attempt(cleared)
    /\ UNCHANGED <<mqtt_connected, loop, op>>

\* FTPSService.start() returns to _ensure_ftps_running (connected or not); the
\* tick then runs _ensure_camera_running.
tick_ftps_started(ok) ==
    /\ orch.pc = "ftps_start"
    /\ ftps.lock = "start"
    /\ IF ok
       THEN ftps' = connect_succeeded(ftps) /\ loop' = loop
       ELSE /\ CanStart(connect_failed(ftps))
            /\ ftps' = _start_reconnection(connect_failed(ftps))
            /\ loop' = loops_after_start(connect_failed(ftps), loop)
    /\ orch' = [orch EXCEPT !.pc = "idle", !.started_ftps = TRUE, !.started_camera = TRUE]
    /\ camera' = _ensure_camera_running(orch, camera)
    /\ UNCHANGED <<mqtt_connected, op, paused_attempt>>

\* FTPSService._reconnect_loop: the sleep ends and connect() is called; nothing
\* is checked in between.
loop_wake(i) ==
    /\ loop[i] = "sleeping"
    /\ ftps.lock = "free"
    /\ IF client_connected(ftps)
       THEN /\ ftps' = [ftps EXCEPT !.is_reconnecting = FALSE]
            /\ loop' = [loop EXCEPT ![i] = "none"]
            /\ UNCHANGED paused_attempt
       ELSE /\ ftps' = begin_attempt(ftps, i)
            /\ loop' = [loop EXCEPT ![i] = "connecting"]
            /\ note_attempt(ftps)
    /\ UNCHANGED <<mqtt_connected, orch, op, camera>>

\* connect() returns in the loop: success ends it, failure counts an attempt
\* and the loop goes on while _is_reconnecting.
loop_connected(i, ok) ==
    /\ loop[i] = "connecting"
    /\ ftps.lock = i
    /\ IF ok
       THEN /\ ftps' = connect_succeeded(ftps)
            /\ loop' = [loop EXCEPT ![i] = "none"]
       ELSE LET failed == connect_failed(ftps)
                started == _start_reconnection(failed)
            IN /\ CanStart(failed)
               /\ ftps' = started
               /\ loop' = [loops_after_start(failed, loop) EXCEPT
                             ![i] = IF started.is_reconnecting THEN "sleeping" ELSE "none"]
    /\ UNCHANGED <<mqtt_connected, orch, op, camera, paused_attempt>>

\* The 30 s since the last successful check pass (_connection_check_interval).
check_expires ==
    /\ client_connected(ftps)
    /\ ftps.fresh
    /\ ftps' = [ftps EXCEPT !.fresh = FALSE]
    /\ UNCHANGED <<mqtt_connected, orch, loop, op, camera, paused_attempt>>

\* list_files_with_navigation -> FTPSService._ensure_connected: a fresh
\* connection is used as it is; a paused service answers with the fallback
\* listing; a missing client is connected; a stale one is probed with pwd().
list_files ==
    /\ op = "idle"
    /\ IF client_connected(ftps) /\ ftps.fresh
       THEN op' = "list" /\ UNCHANGED <<ftps, paused_attempt>>
       ELSE /\ ~ftps.reconnect_paused
            /\ ftps.lock = "free"
            /\ IF ~client_connected(ftps)
               THEN /\ ftps' = begin_attempt(ftps, "op")
                    /\ op' = "connecting"
                    /\ note_attempt(ftps)
               ELSE /\ ftps' = [ftps EXCEPT !.lock = "op"]
                    /\ op' = "pwd"
                    /\ UNCHANGED paused_attempt
    /\ UNCHANGED <<mqtt_connected, orch, loop, camera>>

\* pwd() answers: the connection is confirmed and the listing is requested, or
\* the client reports the error (_handle_client_connection_error), is closed
\* and _connect_internal() is called.
pwd_returns(ok) ==
    /\ op = "pwd"
    /\ IF ok
       THEN /\ ftps' = [ftps EXCEPT !.fresh = TRUE, !.lock = "free"]
            /\ op' = "list"
            /\ UNCHANGED <<loop, paused_attempt>>
       ELSE LET lost == [ftps EXCEPT !.client = "none"]
                handled == _start_reconnection(lost)
            IN /\ CanStart(lost)
               /\ ftps' = begin_attempt(handled, "op")
               /\ loop' = loops_after_start(lost, loop)
               /\ op' = "connecting"
               /\ note_attempt(handled)
    /\ UNCHANGED <<mqtt_connected, orch, camera>>

\* _connect_internal() returns to _ensure_connected.
op_connected(ok) ==
    /\ op = "connecting"
    /\ ftps.lock = "op"
    /\ IF ok
       THEN ftps' = connect_succeeded(ftps) /\ op' = "list" /\ loop' = loop
       ELSE /\ CanStart(connect_failed(ftps))
            /\ ftps' = _start_reconnection(connect_failed(ftps))
            /\ loop' = loops_after_start(connect_failed(ftps), loop)
            /\ op' = "idle"
    /\ UNCHANGED <<mqtt_connected, orch, camera, paused_attempt>>

\* self._client.list(...) answers, or fails: the client marks itself not
\* connected and _handle_client_connection_error starts the reconnection.
list_returns(ok) ==
    /\ op = "list"
    /\ op' = "idle"
    /\ IF ok \/ ~client_connected(ftps)
       THEN UNCHANGED <<ftps, loop>>
       ELSE LET lost == [ftps EXCEPT !.client = "none"]
            IN /\ CanStart(lost)
               /\ ftps' = _start_reconnection(lost)
               /\ loop' = loops_after_start(lost, loop)
    /\ UNCHANGED <<mqtt_connected, orch, camera, paused_attempt>>

(***************************************************************************)
(* PART 3 - switching the active printer.  Every generation of services is *)
(* kept: an object that nobody stops goes on running after the registry    *)
(* has dropped its reference.                                              *)
(***************************************************************************)
Gens == 0..MaxSwitches

\* ServiceRegistry._build_services: new, unstarted service objects.
_build_services(printer) ==
    [printer |-> printer, mqtt |-> "stopped", ftps |-> FALSE, camera |-> FALSE,
     relay |-> FALSE, reconnect_paused |-> FALSE]

Unbuilt == _build_services(None)

\* ConnectionOrchestrator.__init__
NewOrchestrator ==
    [running |-> FALSE, pc |-> "idle",
     started |-> [mqtt |-> FALSE, presence |-> FALSE, ftps |-> FALSE, camera |-> FALSE]]

\* StateRepository.is_active_printer
is_active_printer(p) == p = active_printer

\* ServiceRegistry.startup -> LifecycleManager.start -> ConnectionOrchestrator.start
startup ==
    /\ ~lifecycle_started
    /\ lifecycle_started' = TRUE
    /\ conn' = [conn EXCEPT !.running = TRUE]
    /\ UNCHANGED <<active_printer, generation, services, presence, forwarded_active>>

\* ConnectionOrchestrator._ensure_mqtt_running, then the gate: MQTT live starts
\* FTPS, the camera engine and the relay (once); MQTT not live pauses them.
tick_services(o, sv) ==
    LET with_mqtt == IF o.started.mqtt THEN sv ELSE [sv EXCEPT !.mqtt = "connecting"]
    IN IF with_mqtt.mqtt = "session"
       THEN [with_mqtt EXCEPT !.reconnect_paused = FALSE,
                              !.ftps = TRUE, !.camera = TRUE, !.relay = TRUE]
       ELSE [with_mqtt EXCEPT !.reconnect_paused = TRUE]

tick_flags(o, sv) ==
    IF sv.mqtt = "session"
    THEN [mqtt |-> TRUE, presence |-> TRUE, ftps |-> TRUE, camera |-> TRUE]
    ELSE [o.started EXCEPT !.mqtt = TRUE, !.presence = TRUE]

\* ConnectionOrchestrator._tick when the presence service has to be started:
\* PrinterPresenceService.start builds and starts a watcher per printer and
\* awaits the gather; _services_started["presence"] is set when it returns.
tick_presence_start ==
    /\ conn.running /\ conn.pc = "idle"
    /\ ~conn.started.presence /\ ~presence.is_running
    /\ presence' = [is_running |-> TRUE, watcher |-> [p \in Printers |-> "ready"]]
    /\ conn' = [conn EXCEPT !.pc = "presence_start"]
    /\ UNCHANGED <<active_printer, generation, services, lifecycle_started,
                   forwarded_active>>

\* The rest of that tick, and every other tick (start() of a running presence
\* service returns at once).
_tick ==
    /\ conn.running
    /\ conn.pc = "presence_start" \/ conn.started.presence \/ presence.is_running
    /\ services' = [services EXCEPT ![generation] = tick_services(conn, @)]
    /\ conn' = [conn EXCEPT !.pc = "idle",
                            !.started = tick_flags(conn, services[generation])]
    /\ UNCHANGED <<active_printer, generation, presence, lifecycle_started,
                   forwarded_active>>

\* The active MQTT service's loop connects: is_connected() becomes true.
mqtt_session_opens ==
    /\ services[generation].mqtt = "connecting"
    /\ services' = [services EXCEPT ![generation].mqtt = "session"]
    /\ UNCHANGED <<active_printer, generation, conn, presence, lifecycle_started,
                   forwarded_active>>

\* ConnectionOrchestrator._stop_services: the dependents are paused; MQTT and
\* presence are stopped if this orchestrator recorded starting them.
_stop_services(o, sv) ==
    [sv EXCEPT !.reconnect_paused = TRUE,
               !.mqtt = IF o.started.mqtt THEN "stopped" ELSE @]

presence_kept(o) == presence
presence_after_stop(o) ==
    IF o.started.presence /\ presence.is_running
    THEN [is_running |-> FALSE, watcher |-> [p \in Printers |-> "stopped"]]
    ELSE presence

\* ServiceRegistry.reconfigure(new_settings): shutdown(stop_presence=False)
\* cancels the orchestrator's task and runs _stop_services; then the active
\* printer is switched, new services and a new orchestrator are built, and
\* startup() starts the orchestrator.  The cancel cannot reach a first tick
\* inside the gather of presence.start(): reconfigure calls are serialised by
\* _reconfigure_lock, startup() returns one loop iteration after the tick
\* entered the gather, and the task that runs ConnectionOrchestrator.stop for
\* the next caller is queued behind the tick's wake-up from the gather.
reconfigure(q) ==
    /\ lifecycle_started
    /\ conn.pc = "idle"
    /\ q # active_printer
    /\ generation < MaxSwitches
    /\ services' = [services EXCEPT
                      ![generation] = _stop_services(conn, @),
                      ![generation + 1] = _build_services(q)]
    /\ presence' = presence_after_stop(conn)
    /\ active_printer' = q
    /\ generation' = generation + 1
    /\ conn' = [NewOrchestrator EXCEPT !.running = TRUE]
    /\ UNCHANGED <<lifecycle_started, forwarded_active>>

\* PrinterCacheWatcher._run, top of the outer loop (after the start, a backoff
\* or the active-printer sleep): a watcher of the active printer sleeps again,
\* any other opens a client.
watcher_loop(p) ==
    /\ presence.watcher[p] = "ready"
    /\ ~is_active_printer(p)
    /\ presence' = [presence EXCEPT !.watcher[p] = "connecting"]
    /\ UNCHANGED <<active_printer, generation, services, conn, lifecycle_started,
                   forwarded_active>>

\* The client connects (or not).  No network answer arrives within the loop
\* iterations the orchestrator spends in the gather of presence.start().
watcher_connected(p, ok) ==
    /\ presence.watcher[p] = "connecting"
    /\ conn.pc # "presence_start"
    /\ presence' = [presence EXCEPT !.watcher[p] = IF ok THEN "open" ELSE "ready"]
    /\ UNCHANGED <<active_printer, generation, services, conn, lifecycle_started,
                   forwarded_active>>

\* Top of the inner loop, after subscribe/publish or after a message: a watcher
\* of the active printer marks itself offline and closes the session.
watcher_check(p) ==
    /\ presence.watcher[p] = "open"
    /\ presence' = [presence EXCEPT
                      !.watcher[p] = IF is_active_printer(p) THEN "ready" ELSE "waiting"]
    /\ UNCHANGED <<active_printer, generation, services, conn, lifecycle_started,
                   forwarded_active>>

\* A report arrives: _handle_payload forwards it to update_print_data.
watcher_message(p) ==
    /\ presence.watcher[p] = "waiting"
    /\ presence' = [presence EXCEPT !.watcher[p] = "open"]
    /\ forwarded_active' = (forwarded_active \/ is_active_printer(p))
    /\ UNCHANGED <<active_printer, generation, services, conn, lifecycle_started>>

\* The session ends (second heartbeat timeout, broker error): offline, backoff.
watcher_drops(p) ==
    /\ presence.watcher[p] = "waiting"
    /\ presence' = [presence EXCEPT !.watcher[p] = "ready"]
    /\ UNCHANGED <<active_printer, generation, services, conn, lifecycle_started,
                   forwarded_active>>

(***************************************************************************)
(* PART 4 - heartbeat supervision of the MQTT sessions and the             *)
(* orchestrator's poll.  Timers fire at their due time.                    *)
(***************************************************************************)
HeartbeatTimeout == 10
PollInterval == 2
ReconnectDelay == 5

\* MQTTService.__init__
NewMqttService ==
    [task |-> "stopped", client |-> FALSE, last_message_at |-> 0, timer |-> 0,
     pinged |-> FALSE, timeouts |-> 0]

\* MQTTService._mqtt_loop leaving the session (the finally clause) and sleeping
\* the reconnect delay.
session_closed(t) ==
    [task |-> "backoff", client |-> FALSE, last_message_at |-> 0,
     timer |-> t + ReconnectDelay, pinged |-> FALSE, timeouts |-> 0]

\* MQTTService.is_connected
is_connected_while_client(m, t) == m.client
is_connected(m, t) ==
    /\ m.client
    /\ (m.last_message_at <= 0 \/ t - m.last_message_at < HeartbeatTimeout * 2)

\* PrinterCacheWatcher.__init__
NewWatcher == [task |-> "stopped", timer |-> 0, heartbeat_sent |-> FALSE, timeouts |-> 0]

watcher_backoff(t) ==
    [task |-> "backoff", timer |-> t + ReconnectDelay, heartbeat_sent |-> FALSE,
     timeouts |-> 0]

\* ConnectionOrchestrator._run: a tick, then sleep(poll_interval).  The tick
\* starts presence and MQTT (first tick), reads is_connected() and resumes or
\* pauses FTPS and camera.
timed_tick ==
    /\ clock = gate.tick_at
    /\ LET started == IF mqtt_service.task = "stopped"
                      THEN [mqtt_service EXCEPT !.task = "connecting"]
                      ELSE mqtt_service
           online == is_connected(started, clock)
       IN /\ mqtt_service' = started
          /\ gate' = [tick_at |-> clock + PollInterval, last_tick_at |-> clock,
                      ftps_paused |-> ~online, camera_paused |-> ~online]
          /\ silence' = IF ~online /\ silence.ref > 0 /\ silence.paused_at = 0
                        THEN [silence EXCEPT !.paused_at = clock]
                        ELSE silence
    /\ cache_watcher' = IF cache_watcher.task = "stopped"
                        THEN [cache_watcher EXCEPT !.task = "connecting"]
                        ELSE cache_watcher
    /\ UNCHANGED <<clock, received>>

\* _mqtt_loop: the client connects (session opened, _last_message_at = now) or
\* raises MqttError.
mqtt_connects(ok) ==
    /\ mqtt_service.task = "connecting"
    /\ mqtt_service' = IF ok
                       THEN [task |-> "session", client |-> TRUE, last_message_at |-> clock,
                             timer |-> clock + HeartbeatTimeout, pinged |-> FALSE,
                             timeouts |-> 0]
                       ELSE session_closed(clock)
    /\ silence' = IF ok THEN [ref |-> clock, paused_at |-> 0] ELSE silence
    /\ UNCHANGED <<clock, cache_watcher, gate, received>>

\* _mqtt_loop: a report arrives; _process_mqtt_message stamps _last_message_at
\* and the loop waits again for heartbeat_timeout.
mqtt_message ==
    /\ mqtt_service.task = "session"
    /\ received < MaxMessages
    /\ clock > mqtt_service.last_message_at
    /\ mqtt_service' = [mqtt_service EXCEPT !.last_message_at = clock,
                                            !.timer = clock + HeartbeatTimeout,
                                            !.pinged = FALSE, !.timeouts = 0]
    /\ silence' = [ref |-> clock, paused_at |-> 0]
    /\ received' = received + 1
    /\ UNCHANGED <<clock, cache_watcher, gate>>

\* _mqtt_loop: wait_for times out.  First timeout: heartbeat ping (a failed
\* publish raises out of the session), wait again.  Second: offline, break.
mqtt_timeout(ping_ok) ==
    /\ mqtt_service.task = "session"
    /\ clock = mqtt_service.timer
    /\ mqtt_service' = IF ~mqtt_service.pinged /\ ping_ok
                       THEN [mqtt_service EXCEPT !.pinged = TRUE,
                                                 !.timer = clock + HeartbeatTimeout,
                                                 !.timeouts = @ + 1]
                       ELSE session_closed(clock)
    /\ UNCHANGED <<clock, cache_watcher, gate, silence, received>>

\* _mqtt_loop: the broker connection fails (MqttError, StopAsyncIteration).
mqtt_error ==
    /\ mqtt_service.task = "session"
    /\ mqtt_service' = session_closed(clock)
    /\ UNCHANGED <<clock, cache_watcher, gate, silence, received>>

\* _mqtt_loop: the reconnect delay is over.
mqtt_retry ==
    /\ mqtt_service.task = "backoff"
    /\ clock = mqtt_service.timer
    /\ mqtt_service' = [mqtt_service EXCEPT !.task = "connecting"]
    /\ UNCHANGED <<clock, cache_watcher, gate, silence, received>>

\* PrinterCacheWatcher._run: the client connects, subscribes and publishes.
presence_connects(ok) ==
    /\ cache_watcher.task = "connecting"
    /\ cache_watcher' = IF ok
                        THEN [task |-> "session", timer |-> clock + HeartbeatTimeout,
                              heartbeat_sent |-> FALSE, timeouts |-> 0]
                        ELSE watcher_backoff(clock)
    /\ UNCHANGED <<clock, mqtt_service, gate, silence, received>>

\* PrinterCacheWatcher._run: a message arrives (the else branch).
presence_message ==
    /\ cache_watcher.task = "session"
    /\ received < MaxMessages
    /\ cache_watcher' = [cache_watcher EXCEPT !.heartbeat_sent = FALSE,
                                              !.timer = clock + HeartbeatTimeout,
                                              !.timeouts = 0]
    /\ received' = received + 1
    /\ UNCHANGED <<clock, mqtt_service, gate, silence>>

\* PrinterCacheWatcher._send_heartbeat: _heartbeat_sent is set only when the
\* publish succeeded; a failure is logged and swallowed.
_send_heartbeat(w, publish_ok) == [w EXCEPT !.heartbeat_sent = publish_ok]

\* PrinterCacheWatcher._run: wait_for times out.  Without _heartbeat_sent the
\* watcher sends a heartbeat and continues; with it, offline and break.
presence_timeout(publish_ok) ==
    /\ cache_watcher.task = "session"
    /\ clock = cache_watcher.timer
    /\ cache_watcher' = IF ~cache_watcher.heartbeat_sent
                        THEN [_send_heartbeat(cache_watcher, publish_ok) EXCEPT
                                 !.timer = clock + HeartbeatTimeout,
                                 !.timeouts = @ + 1]
                        ELSE watcher_backoff(clock)
    /\ UNCHANGED <<clock, mqtt_service, gate, silence, received>>

\* PrinterCacheWatcher._run: the backoff sleep of the finally clause is over.
presence_retry ==
    /\ cache_watcher.task = "backoff"
    /\ clock = cache_watcher.timer
    /\ cache_watcher' = [cache_watcher EXCEPT !.task = "connecting"]
    /\ UNCHANGED <<clock, mqtt_service, gate, silence, received>>

\* One second passes; no timer is overdue.
TimerPending(x) == x.task \in {"session", "backoff"} => clock < x.timer

advance ==
    /\ clock < MaxTime
    /\ clock < gate.tick_at
    /\ TimerPending(mqtt_service)
    /\ TimerPending(cache_watcher)
    /\ clock' = clock + 1
    /\ UNCHANGED <<mqtt_service, cache_watcher, gate, silence, received>>

(***************************************************************************)
(* PART 5 - POST /skip-objects.  The objects of a plate are 1..total.      *)
(***************************************************************************)
MAX_SKIP_OBJECTS == 64
PlateSizes == {0, 1, 2, 3, 64, 65}
ObjectLists == {{}, {1}, {2}, {1, 2}, {1, 2, 3}, 1..63, 1..64, 1..65}

NothingSent == [published |-> FALSE, targets |-> {}, total |-> 0, skipped |-> {},
                matched |-> FALSE]

\* The object-count checks of skip_objects on the resolved plate: the reason of
\* the rejection, or None when they pass.
plate_checks(total_objects, skipped, new_targets) ==
    LET object_ids == 1..total_objects
        skipped_count == Cardinality(object_ids \cap skipped)
        remaining == total_objects - skipped_count
        remaining_after == remaining - Cardinality(new_targets)
    IN IF total_objects = 0 THEN "unavailable for this plate"
       ELSE IF total_objects <= 1 THEN "requires at least two objects"
       ELSE IF total_objects > MAX_SKIP_OBJECTS THEN "limited to 64"
       ELSE IF remaining <= 1 THEN "only one object remains"
       ELSE IF remaining_after < 1 THEN "at least one object must remain"
       ELSE None

\* skip_objects up to the publish: the rejection, or None when the command is
\* to be published.  listing2 is whether the remote listing made by
\* get_cached_metadata_result succeeded (connected, not a fallback).
skip_objects_rejection(job, skipped, obj_list, listing2) ==
    LET new_targets == obj_list \ skipped
        metadata == listing2 /\ job.cached
    IN IF obj_list = {} THEN "obj_list empty"
       ELSE IF new_targets = {} THEN "already skipped"
       ELSE IF ~job.file THEN "file unavailable"
       ELSE IF ~job.cached THEN "cache missing or mismatch"
       ELSE IF metadata THEN plate_checks(job.total, skipped, new_targets)
       ELSE None

\* POST /skip-objects; client_up is whether MQTTService has a client when
\* send_project_print runs.
skip_objects(obj_list, listing2, client_up) ==
    LET rejection == skip_objects_rejection(print_job, skipped_objects, obj_list, listing2)
    IN /\ sent' = IF rejection = None /\ client_up
                  THEN [published |-> TRUE, targets |-> obj_list \ skipped_objects,
                        total |-> print_job.total, skipped |-> skipped_objects,
                        matched |-> print_job.cached]
                  ELSE NothingSent
       /\ UNCHANGED <<print_job, skipped_objects>>

\* A report names the print's file; PrintParser reads gcode_file and s_obj.
report_print(total, cached) ==
    /\ print_job' = [file |-> TRUE, total |-> total, cached |-> cached]
    /\ skipped_objects' = {}
    /\ sent' = NothingSent

\* The printer has applied the published command and reports s_obj.
report_skipped ==
    /\ sent.published
    /\ skipped_objects' = skipped_objects \cup (sent.targets \cap (1..print_job.total))
    /\ sent' = NothingSent
    /\ UNCHANGED print_job

(***************************************************************************)
(* PART 6 - PrintJobService.prepare_file, its single-slot TaskQueue and    *)
(* the print cache of one printer                                          *)
(*                                                                         *)
(* A request names a file by its path on the printer's storage, a sequence *)
(* of path components.  The cache is keyed by the last component only, so  *)
(* the two files of this model share one cache slot.  A job suspends only  *)
(* where it waits for the network or for a thread: the listing, opening    *)
(* the download, the size lookup, each chunk, the meta write, and - when   *)
(* the connection check finds the control connection dead - the close of   *)
(* the old client.  _set_job_state never suspends: its lock is never held  *)
(* across a suspension.  A cancellation is delivered where the job is      *)
(* suspended, in the step that requests it.                                *)
(***************************************************************************)
PrinterId == "p1"
RemoteFiles == {<<"a.3mf">>, <<"sub", "a.3mf">>}
\* What a listing line can say of a file: (modified, size).
Stamps == {<<"2024-01-01 10:00", "1.0 MB">>, <<"2024-01-02 10:00", "1.0 MB">>,
           <<"2024-01-01 10:00", "2.0 MB">>}
Bundles == {"ok", "bad_zip", "no_plate"}

\* Path(raw_identifier).name
_normalize_job_input(filename) == filename[Len(filename)]
\* target_path.as_posix(), kept as its components
_resolve_remote_path(filename) == filename

\* An entry of the listing (_parse_list_line) and the files of the cache.
FileEntry(name, modified, size, path) ==
    [present |-> TRUE, name |-> name, modified |-> modified, size |-> size, path |-> path]
Absent == [present |-> FALSE, name |-> "", modified |-> "", size |-> "", path |-> <<>>]
EmptyCache == [tmp |-> FALSE, tmp_chunks |-> 0, file |-> Absent, meta |-> Absent]

DefaultJobState ==
    [active |-> FALSE, status |-> "idle", progress |-> 0, step |-> "",
     filename |-> "", file_path |-> <<>>]

NewJob(filename) ==
    [file |-> filename, future |-> "pending", pc |-> "queued", file_info |-> Absent,
     cancelled_at |-> "", cancelled_by |-> "", outcome |-> ""]

\* PrintJobCache.is_valid: both files exist and the meta's four fields equal
\* the arguments.
is_valid_ignoring_modified(c, filename, modified, size, remote_path) ==
    /\ c.file.present
    /\ c.meta.present
    /\ c.meta.size = size
    /\ c.meta.name = filename
    /\ (remote_path # <<>> => c.meta.path = remote_path)
is_valid(c, filename, modified, size, remote_path) ==
    /\ c.file.present
    /\ c.meta.present
    /\ c.meta.modified = modified
    /\ c.meta.size = size
    /\ c.meta.name = filename
    /\ (remote_path # <<>> => c.meta.path = remote_path)

\* PrintJobCache.write_meta
write_meta(c, filename, modified, size, remote_path) ==
    [c EXCEPT !.meta = FileEntry(filename, modified, size, remote_path)]

\* The job states written by _run_prepare_job and _download_file.
state_running(js, display_name, remote_path) ==
    [js EXCEPT !.active = TRUE, !.status = "running", !.progress = 0,
               !.step = "Preparing print file...", !.filename = display_name,
               !.file_path = remote_path]
state_checking(js) == [js EXCEPT !.progress = 20, !.step = "Checking cache..."]
state_lookup_error(js, display_name) ==
    [js EXCEPT !.active = FALSE, !.status = "error", !.step = "Error",
               !.filename = display_name, !.file_path = <<>>]
state_error(js) == [js EXCEPT !.active = FALSE, !.status = "error", !.step = "Error"]
state_cached(js) == [js EXCEPT !.progress = 40, !.step = "Using cached file"]
state_downloading(js) == [js EXCEPT !.progress = 40, !.step = "Downloading from printer"]
state_cancelled_running(js) ==
    [js EXCEPT !.active = TRUE, !.status = "cancelled", !.step = "Cancelled"]
state_cancelled(js) ==
    [js EXCEPT !.active = FALSE, !.status = "cancelled", !.step = "Cancelled"]

\* The progress reported with a chunk: 40 + int(min(downloaded / total, 1) * 20).
download_progress(downloaded, total) ==
    LET scaled == IF downloaded >= total THEN 20 ELSE (downloaded * 20) \div total
        progress == 40 + scaled
    IN IF progress < 60 THEN progress ELSE 60

\* _run_prepare_job from "File ready" to its end: none of it suspends.
finalize(js, remote_path, bundle) ==
    LET extracting == [js EXCEPT !.progress = 75, !.step = "Extracting 3MF archive..."]
        parsing == [js EXCEPT !.progress = 85, !.step = "Parsing slice metadata..."]
    IN IF bundle = "bad_zip" THEN state_error(extracting)
       ELSE IF bundle = "no_plate" THEN state_error(parsing)
       ELSE [js EXCEPT !.progress = 100, !.status = "completed",
                       !.step = "Ready for print setup", !.active = FALSE,
                       !.file_path = remote_path]

Ended == {"skipped", "cancelled", "finished"}
InDownload == {"open", "open_closing", "size", "stream"}

\* The task of job jb ends: the worker settles the future unless it is already
\* cancelled (TaskQueue._worker, "if not future.done()").
ended(jb, outcome) ==
    [jb EXCEPT !.pc = "finished",
               !.future = IF @ = "pending" THEN "done" ELSE @,
               !.file_info = Absent,
               !.outcome = outcome]

\* future.cancel() on job jb: _cancel_task cancels the task, and CancelledError
\* is raised where the job is suspended.  A job still in the queue only has its
\* future cancelled; a task that has not run its first step ends without
\* running; BambuFtpClient.close() catches the CancelledError raised in its
\* wait for the writer, after which the job goes on where it was.
cancelled_job(jb, by) ==
    [jb EXCEPT !.future = "cancelled",
               !.cancelled_at = jb.pc,
               !.cancelled_by = by,
               !.file_info = IF jb.pc \in {"lookup_closing", "open_closing"} THEN @ ELSE Absent,
               !.pc = CASE jb.pc = "queued" -> "queued"
                        [] jb.pc = "lookup_closing" -> "lookup"
                        [] jb.pc = "open_closing" -> "open"
                        [] OTHER -> "cancelled"]

\* The handlers of CancelledError: _download_file removes the temp file,
\* _run_prepare_job writes the cancelled state.  The thread of write_meta is
\* not stopped by the cancellation: it has written the meta or never started.
cancelled_state(jb, js) ==
    IF jb.pc \in {"lookup", "open", "size", "stream", "meta"} THEN state_cancelled(js) ELSE js

cancelled_cache(jb, c, thread_ran) ==
    IF jb.pc = "stream" THEN [c EXCEPT !.tmp = FALSE, !.tmp_chunks = 0]
    ELSE IF jb.pc = "meta" /\ thread_ran
         THEN write_meta(c, _normalize_job_input(jb.file), jb.file_info.modified,
                         jb.file_info.size, _resolve_remote_path(jb.file))
    ELSE c

InFlight(j) == j # 0 /\ jobs[j].future = "pending"

prepare_file(filename, thread_ran) ==
    LET old == active_jobs
        hit == InFlight(old)
    IN /\ Len(jobs) < MaxJobs
       /\ jobs' = Append(IF hit THEN [jobs EXCEPT ![old] = cancelled_job(@, "prepare_file")]
                                ELSE jobs,
                         NewJob(filename))
       /\ job_state' = IF hit THEN cancelled_state(jobs[old], job_state) ELSE job_state
       /\ cache' = IF hit THEN cancelled_cache(jobs[old], cache, thread_ran) ELSE cache
       /\ worker' = IF hit /\ cancelled_job(jobs[old], "prepare_file").pc = "cancelled"
                    THEN 0 ELSE worker
       /\ prepare_queue' = Append(prepare_queue, Len(jobs) + 1)
       /\ active_jobs' = Len(jobs) + 1
       /\ UNCHANGED listing

\* PrintJobService.cancel
cancel(thread_ran) ==
    LET old == active_jobs
    IN /\ InFlight(old)
       /\ jobs' = [jobs EXCEPT ![old] = cancelled_job(@, "cancel")]
       /\ job_state' = cancelled_state(jobs[old], job_state)
       /\ cache' = cancelled_cache(jobs[old], cache, thread_ran)
       /\ worker' = IF cancelled_job(jobs[old], "cancel").pc = "cancelled" THEN 0 ELSE worker
       /\ UNCHANGED <<prepare_queue, active_jobs, listing>>

\* One round of TaskQueue._worker up to "await task".
_worker ==
    /\ worker = 0
    /\ prepare_queue # <<>>
    /\ LET j == Head(prepare_queue)
       IN IF jobs[j].future = "cancelled"
          THEN /\ jobs' = [jobs EXCEPT ![j].pc = "skipped"]
               /\ UNCHANGED worker
          ELSE /\ jobs' = [jobs EXCEPT ![j].pc = "created"]
               /\ worker' = j
    /\ prepare_queue' = Tail(prepare_queue)
    /\ UNCHANGED <<active_jobs, job_state, cache, listing>>

\* _run_prepare_job up to the listing.
job_starts ==
    /\ worker # 0
    /\ jobs[worker].pc = "created"
    /\ job_state' = state_checking(state_running(job_state,
                        _normalize_job_input(jobs[worker].file),
                        _resolve_remote_path(jobs[worker].file)))
    /\ jobs' = [jobs EXCEPT ![worker].pc = "lookup"]
    /\ UNCHANGED <<prepare_queue, active_jobs, worker, cache, listing>>

\* _ensure_connected finds the control connection dead (pwd fails) and closes
\* the old client: the job waits in BambuFtpClient.close().
connection_check_fails ==
    /\ worker # 0
    /\ jobs[worker].pc \in {"lookup", "open"}
    /\ jobs' = [jobs EXCEPT ![worker].pc = IF @ = "lookup" THEN "lookup_closing"
                                                           ELSE "open_closing"]
    /\ UNCHANGED <<prepare_queue, active_jobs, worker, job_state, cache, listing>>

\* close() returns; _connect_internal and the operation follow.
close_returns ==
    /\ worker # 0
    /\ jobs[worker].pc \in {"lookup_closing", "open_closing"}
    /\ jobs' = [jobs EXCEPT ![worker].pc = IF @ = "lookup_closing" THEN "lookup" ELSE "open"]
    /\ UNCHANGED <<prepare_queue, active_jobs, worker, job_state, cache, listing>>

\* _lookup_or_cache_remote_file returns or raises, and the job runs on to its
\* next suspension: to its end on the cached path, to the download otherwise.
lookup_returns(storage_ok, bundle) ==
    /\ worker # 0
    /\ jobs[worker].pc = "lookup"
    /\ LET jb == jobs[worker]
           display_name == _normalize_job_input(jb.file)
           remote_path == _resolve_remote_path(jb.file)
           file_info == listing[remote_path]
       IN IF ~storage_ok \/ ~file_info.present
          THEN /\ job_state' = state_lookup_error(job_state, display_name)
               /\ jobs' = [jobs EXCEPT ![worker] = ended(@, "lookup failed")]
               /\ worker' = 0
          ELSE IF is_valid(cache, display_name, file_info.modified, file_info.size,
                           remote_path)
          THEN /\ job_state' = finalize(state_cached(job_state), remote_path, bundle)
               /\ jobs' = [jobs EXCEPT ![worker] = ended(@, "cached")]
               /\ worker' = 0
          ELSE /\ jobs' = [jobs EXCEPT ![worker].pc = "open",
                                       ![worker].file_info = file_info]
               /\ UNCHANGED <<job_state, worker>>
    /\ UNCHANGED <<prepare_queue, active_jobs, cache, listing>>

\* _download_file: stream_binary_file returns the stream or None.
open_returns(ok) ==
    /\ worker # 0
    /\ jobs[worker].pc = "open"
    /\ IF ok
       THEN /\ jobs' = [jobs EXCEPT ![worker].pc = "size"]
            /\ UNCHANGED <<job_state, worker>>
       ELSE /\ job_state' = state_error(job_state)
            /\ jobs' = [jobs EXCEPT ![worker] = ended(@, "download failed")]
            /\ worker' = 0
    /\ UNCHANGED <<prepare_queue, active_jobs, cache, listing>>

\* get_remote_file_size returns; the temp file is opened for writing.
size_returns ==
    /\ worker # 0
    /\ jobs[worker].pc = "size"
    /\ job_state' = state_downloading(job_state)
    /\ cache' = [cache EXCEPT !.tmp = TRUE, !.tmp_chunks = 0]
    /\ jobs' = [jobs EXCEPT ![worker].pc = "stream"]
    /\ UNCHANGED <<prepare_queue, active_jobs, worker, listing>>

\* The stream yields a chunk.
stream_chunk ==
    /\ worker # 0
    /\ jobs[worker].pc = "stream"
    /\ cache.tmp_chunks < FileChunks
    /\ cache' = [cache EXCEPT !.tmp_chunks = @ + 1]
    /\ job_state' = [job_state EXCEPT
                        !.step = "Downloading from printer",
                        !.progress = download_progress(cache.tmp_chunks + 1, FileChunks)]
    /\ UNCHANGED <<jobs, prepare_queue, active_jobs, worker, listing>>

\* The stream ends: the temp file replaces the cached file, write_meta begins.
stream_ends ==
    /\ worker # 0
    /\ jobs[worker].pc = "stream"
    /\ cache' = [cache EXCEPT !.tmp = FALSE, !.tmp_chunks = 0,
                              !.file = jobs[worker].file_info]
    /\ job_state' = [job_state EXCEPT !.progress = 60, !.step = "Download complete"]
    /\ jobs' = [jobs EXCEPT ![worker].pc = "meta"]
    /\ UNCHANGED <<prepare_queue, active_jobs, worker, listing>>

\* The stream raises (FTPError, timeout): the temp file is removed.
stream_fails ==
    /\ worker # 0
    /\ jobs[worker].pc = "stream"
    /\ cache' = [cache EXCEPT !.tmp = FALSE, !.tmp_chunks = 0]
    /\ job_state' = state_error(job_state)
    /\ jobs' = [jobs EXCEPT ![worker] = ended(@, "download failed")]
    /\ worker' = 0
    /\ UNCHANGED <<prepare_queue, active_jobs, listing>>

\* write_meta returns, and the job runs to its end.
meta_written(bundle) ==
    /\ worker # 0
    /\ jobs[worker].pc = "meta"
    /\ LET jb == jobs[worker]
       IN /\ cache' = write_meta(cache, _normalize_job_input(jb.file), jb.file_info.modified,
                                 jb.file_info.size, _resolve_remote_path(jb.file))
          /\ job_state' = finalize([job_state EXCEPT !.progress = 70,
                                        !.step = "File ready (not yet extracted)"],
                                   _resolve_remote_path(jb.file), bundle)
    /\ jobs' = [jobs EXCEPT ![worker] = ended(@, "downloaded")]
    /\ worker' = 0
    /\ UNCHANGED <<prepare_queue, active_jobs, listing>>

\* The file on the printer is replaced: its listing entry changes.
listing_changes(path, stamp) ==
    /\ listing[path] # FileEntry(path[Len(path)], stamp[1], stamp[2], path)
    /\ listing' = [listing EXCEPT ![path] = FileEntry(path[Len(path)], stamp[1], stamp[2], path)]
    /\ UNCHANGED <<jobs, prepare_queue, active_jobs, worker, job_state, cache>>

(***************************************************************************)
(* PART 7 - the sessions that write a printer's telemetry                  *)
(*                                                                         *)
(* The store of a printer is written by one MQTT session at a time: that   *)
(* of MQTTService for the active printer, that of its PrinterCacheWatcher  *)
(* for any other.  Either one marks the printer online when the session    *)
(* opens, forwards every report to update_print_data, and marks it offline *)
(* when it gives the session up.  PUT /printers/{id} drops the printer's   *)
(* store (remove_printer) before the registry is reconfigured: the watcher *)
(* of the printer is stopped first, the MQTT service of the active printer *)
(* is stopped only afterwards, by reconfigure.                             *)
(***************************************************************************)
ConfiguredPrinter == "p1"

\* _mqtt_loop / PrinterCacheWatcher._run: the client is connected.
session_opens(p, now) ==
    /\ session[p] = "closed"
    /\ session' = [session EXCEPT ![p] = "open"]
    /\ set_printer_online(p, TRUE, now)

\* _process_mqtt_message / _handle_payload
session_report(p, payload, now) ==
    /\ session[p] = "open"
    /\ update_print_data(p, payload, now)
    /\ UNCHANGED session

\* Second heartbeat timeout or a broker error: offline, and the session ends.
session_lost(p, now) ==
    /\ session[p] = "open"
    /\ session' = [session EXCEPT ![p] = "closed"]
    /\ set_printer_online(p, FALSE, now)

\* MQTTService.stop / PrinterCacheWatcher.stop: the task is cancelled.
session_stopped(p) ==
    /\ session[p] = "open"
    /\ session' = [session EXCEPT ![p] = "closed"]
    /\ UNCHANGED varsState

\* PrinterPresenceService.remove_printer: the watcher is stopped and
\* StateRepository.reset pops the store, which _get_store builds anew.
remove_printer(p) ==
    /\ session' = IF p = ConfiguredPrinter THEN session
                  ELSE [session EXCEPT ![p] = "closed"]
    /\ master' = [master EXCEPT ![p] = DefaultMaster]
    /\ state' = [state EXCEPT ![p] = DefaultState]
    /\ UNCHANGED <<applied, versions, snapshots, subscribers, sub>>

(***************************************************************************)
(* Specifications                                                          *)
(***************************************************************************)
InitState ==
    /\ master = [p \in Printers |-> DefaultMaster]
    /\ state = [p \in Printers |-> DefaultState]
    /\ applied = [p \in Printers |-> 0]
    /\ versions = [p \in Printers |-> 0]
    /\ snapshots = [p \in Printers |-> NoSnapshot]
    /\ subscribers = {}
    /\ sub = [s \in SubIds |-> IdleSub]

InitFtps ==
    /\ mqtt_connected = FALSE
    /\ orch = [mqtt_online |-> FALSE, started_ftps |-> FALSE, started_camera |-> FALSE,
               pc |-> "idle"]
    /\ ftps = [started |-> FALSE, reconnect_paused |-> FALSE, is_reconnecting |-> FALSE,
               reconnect_task |-> NoTask, client |-> "none", fresh |-> FALSE,
               lock |-> "free"]
    /\ loop = [i \in LoopIds |-> "none"]
    /\ op = "idle"
    /\ camera = [started |-> FALSE, engine |-> FALSE, reconnect_paused |-> FALSE]
    /\ paused_attempt = FALSE

\* The registry as constructed for the configured printer p1; nothing started.
InitSwitch ==
    /\ active_printer = "p1"
    /\ generation = 0
    /\ services = [g \in Gens |-> IF g = 0 THEN _build_services("p1") ELSE Unbuilt]
    /\ conn = NewOrchestrator
    /\ presence = [is_running |-> FALSE, watcher |-> [p \in Printers |-> "stopped"]]
    /\ lifecycle_started = FALSE
    /\ forwarded_active = FALSE

\* The orchestrator is constructed with a first tick due at once.
InitLive ==
    /\ clock = 1
    /\ mqtt_service = NewMqttService
    /\ cache_watcher = NewWatcher
    /\ gate = [tick_at |-> 1, last_tick_at |-> 0, ftps_paused |-> FALSE,
               camera_paused |-> FALSE]
    /\ silence = [ref |-> 0, paused_at |-> 0]
    /\ received = 0

\* No print yet (PrintState defaults).
InitSkip ==
    /\ print_job = [file |-> FALSE, total |-> 0, cached |-> FALSE]
    /\ skipped_objects = {}
    /\ sent = NothingSent

\* No job yet; both files are on the printer and nothing is cached.
InitPrep ==
    /\ jobs = <<>>
    /\ prepare_queue = <<>>
    /\ active_jobs = 0
    /\ worker = 0
    /\ job_state = DefaultJobState
    /\ cache = EmptyCache
    /\ listing = [f \in RemoteFiles |->
                    FileEntry(f[Len(f)], "2024-01-01 10:00", "1.0 MB", f)]

\* No session yet.
InitSess == session = [p \in Printers |-> "closed"]

(***************************************************************************)
(* PART 8 - event service                                                  *)
(***************************************************************************)

\* A text is a sequence of characters; " " stands for any whitespace.
\* None and the empty string are both <<>> (both are falsy where it matters).
_SNAPSHOT_CHANNEL_STATE == "gcode_state"
_SNAPSHOT_CHANNEL_PRINT_ERROR == "print_error"
_SNAPSHOT_CHANNEL_HMS == "hms_errors"
Channels == {_SNAPSHOT_CHANNEL_STATE, _SNAPSHOT_CHANNEL_PRINT_ERROR, _SNAPSHOT_CHANNEL_HMS}
_INTERESTING_STATES == {"FINISH", "PAUSE"}

RECURSIVE lstrip(_)
lstrip(text) ==
    IF text # <<>> /\ Head(text) = " " THEN lstrip(Tail(text)) ELSE text

RECURSIVE rstrip(_)
rstrip(text) ==
    IF text # <<>> /\ text[Len(text)] = " "
    THEN rstrip(SubSeq(text, 1, Len(text) - 1))
    ELSE text

\* EventService._clean_text: "" for a falsy text, else str(text).strip().
_clean_text(text) == IF text = <<>> THEN <<>> ELSE lstrip(rstrip(text))

\* A value handed to _update_snapshot: None, or a value of the channel's type.
NoValue(default) == [present |-> FALSE, value |-> default]
Value(v) == [present |-> TRUE, value |-> v]

\* json.dumps(dict, sort_keys=True) of an error's payload: its items by key.
dumps(code, description, sub_code) ==
    <<<<"code", code>>, <<"description", description>>, <<"sub_code", sub_code>>>>

\* EventService._normalize_snapshot: None stays None, a string is itself, a
\* dict or a list of dicts becomes its JSON text with sorted keys.
_normalize_snapshot(channel, value) ==
    IF ~value.present THEN value
    ELSE IF channel = _SNAPSHOT_CHANNEL_STATE THEN value
    ELSE IF channel = _SNAPSHOT_CHANNEL_PRINT_ERROR
    THEN Value(dumps(value.value.code, value.value.description, value.value.sub_code))
    ELSE Value([i \in 1..Len(value.value) |->
                  dumps(value.value[i].code, value.value[i].description,
                        value.value[i].sub_code)])

\* A variant of _update_snapshot that reports every stored value as a change.
_update_snapshot_always_changed(snaps, printer_id, channel, value) ==
    LET normalized == _normalize_snapshot(channel, value)
        key == <<printer_id, channel>>
    IN IF ~normalized.present
       THEN [changed |-> snaps[key].present, snaps |-> [snaps EXCEPT ![key] = normalized]]
       ELSE [changed |-> TRUE, snaps |-> [snaps EXCEPT ![key] = normalized]]

\* EventService._update_snapshot: stores the normalized value and tells whether
\* it differs from the one stored before; None removes the key.
_update_snapshot(snaps, printer_id, channel, value) ==
    LET normalized == _normalize_snapshot(channel, value)
        key == <<printer_id, channel>>
        previous == snaps[key]
    IN IF ~normalized.present
       THEN [changed |-> previous.present, snaps |-> [snaps EXCEPT ![key] = normalized]]
       ELSE IF previous.present /\ previous.value = normalized.value
            THEN [changed |-> FALSE, snaps |-> snaps]
            ELSE [changed |-> TRUE, snaps |-> [snaps EXCEPT ![key] = normalized]]

\* EventService._build_event, without the progress fields it copies.
_build_event(printer_id, st, message, gcode_state) ==
    [printer_id |-> printer_id, gcode_state |-> gcode_state, message |-> message]

\* EventService._append_event: deque(maxlen).appendleft.
_append_event(evts, event) ==
    LET queue == <<event>> \o evts[event.printer_id]
    IN [evts EXCEPT ![event.printer_id] =
            IF Len(queue) > max_events_per_printer
            THEN SubSeq(queue, 1, max_events_per_printer)
            ELSE queue]

\* The label of an error in a message: code, description, or both.
label(code, desc, unknown) ==
    IF desc = <<>> THEN (IF code = <<>> THEN <<unknown>> ELSE code)
    ELSE IF code = <<>> THEN desc ELSE code \o <<" - ">> \o desc

\* The gcode_state channel of _handle_state_update.
_track_gcode_state(es, printer_id, st) ==
    LET r == _update_snapshot(es.snaps, printer_id, _SNAPSHOT_CHANNEL_STATE,
                              Value(st.gcode_state))
        message == IF st.gcode_state = "FINISH" THEN <<"Print finished">>
                   ELSE <<"Print paused">>
    IN [snaps |-> r.snaps,
        events |-> IF r.changed /\ st.gcode_state \in _INTERESTING_STATES
                   THEN _append_event(es.events,
                            _build_event(printer_id, st, message, st.gcode_state))
                   ELSE es.events]

\* EventService._track_print_error
_track_print_error(es, printer_id, st) ==
    LET error == st.print_error
        code == _clean_text(error.code)
        desc == _clean_text(error.description)
        snapshot_payload ==
            IF error.present
            THEN Value([code |-> code, description |-> desc, sub_code |-> <<>>])
            ELSE NoValue(<<>>)
        message == <<"Print error detected: ">> \o label(code, desc, "Unknown code")
        r == _update_snapshot(es.snaps, printer_id, _SNAPSHOT_CHANNEL_PRINT_ERROR,
                              snapshot_payload)
    IN [snaps |-> r.snaps,
        events |-> IF snapshot_payload.present /\ r.changed
                   THEN _append_event(es.events,
                            _build_event(printer_id, st, message, st.gcode_state))
                   ELSE es.events]

\* EventService._track_hms_error
_track_hms_error(es, printer_id, st) ==
    LET errors == st.hms_errors
        normalized_errors ==
            [i \in 1..Len(errors) |->
                [code |-> _clean_text(errors[i].code),
                 description |-> _clean_text(errors[i].description),
                 sub_code |-> <<>>]]
        message ==
            <<"HMS error detected: ">>
                \o label(normalized_errors[1].code, normalized_errors[1].description,
                         "Unknown HMS code")
        r == _update_snapshot(es.snaps, printer_id, _SNAPSHOT_CHANNEL_HMS,
                              IF normalized_errors = <<>> THEN NoValue(<<>>)
                              ELSE Value(normalized_errors))
    IN [snaps |-> r.snaps,
        events |-> IF normalized_errors # <<>> /\ r.changed
                   THEN _append_event(es.events,
                            _build_event(printer_id, st, message, st.gcode_state))
                   ELSE es.events]

\* The states the notifier hands to the hook: print.gcode_state,
\* print.print_error and print.hms_errors of a PrinterState.
NoPrintError == [present |-> FALSE, code |-> <<>>, description |-> <<>>]
PrintErrors ==
    {NoPrintError,
     [present |-> TRUE, code |-> <<"0300">>, description |-> <<"jam">>],
     [present |-> TRUE, code |-> <<"0300">>, description |-> <<"jam", " ">>]}
HmsLists ==
    {<<>>,
     <<[code |-> <<"0C00">>, description |-> <<>>, timestamp |-> "t1"]>>,
     <<[code |-> <<"0C00">>, description |-> <<>>, timestamp |-> "t2"]>>}
EventGcodeStates == {"RUNNING", "PAUSE", "FINISH"}
EventStates ==
    [gcode_state : EventGcodeStates, print_error : PrintErrors, hms_errors : HmsLists]

TotalEvents == Len(events["p1"]) + Len(events["p2"])

\* EventService._handle_state_update: the three channels in turn.  The only
\* awaits are acquisitions of a lock nobody holds across a suspension, so the
\* handler runs as one step.
_handle_state_update(printer_id, st) ==
    LET es0 == [snaps |-> event_snapshots, events |-> events]
        es1 == _track_gcode_state(es0, printer_id, st)
        es2 == _track_print_error(es1, printer_id, st)
        es3 == _track_hms_error(es2, printer_id, st)
    IN /\ event_snapshots' = es3.snaps
       /\ events' = es3.events

\* EventService.clear_events(printer_id=...)
clear_events(printer_id) ==
    /\ events[printer_id] # <<>>
    /\ events' = [events EXCEPT ![printer_id] = <<>>]
    /\ UNCHANGED event_snapshots

ChannelDefault(channel) == IF channel = _SNAPSHOT_CHANNEL_STATE THEN "" ELSE <<>>

InitEvents ==
    /\ event_snapshots = [k \in Printers \X Channels |-> NoValue(ChannelDefault(k[2]))]
    /\ events = [p \in Printers |-> <<>>]

(***************************************************************************)
(* PART 9 - WebRTC session manager                                         *)
(***************************************************************************)

SessionIds == 1..MaxSessions
NoSession == [present |-> FALSE, ts |-> 0]
NoViewer == [claimed |-> FALSE, released |-> FALSE, last_seen |-> 0]

\* WebRTCSessionManager._prune_locked
_prune_locked(sessions, now) ==
    [sid \in SessionIds |->
        IF sessions[sid].present /\ now - sessions[sid].ts > ttl_seconds
        THEN NoSession ELSE sessions[sid]]

len(sessions) == Cardinality({sid \in SessionIds : sessions[sid].present})

\* A variant of claim that hands out an id without looking at the viewer count.
claim_without_cap ==
    LET pruned == _prune_locked(_sessions, monotonic)
        session_id == issued + 1
    IN /\ issued < MaxSessions
       /\ _sessions' = [pruned EXCEPT ![session_id] = [present |-> TRUE, ts |-> monotonic]]
       /\ issued' = session_id
       /\ viewers' = [viewers EXCEPT ![session_id] =
                         [claimed |-> TRUE, released |-> FALSE, last_seen |-> monotonic]]
       /\ UNCHANGED monotonic

\* WebRTCSessionManager.claim, as POST /camera/webrtc/offer calls it: prune,
\* then None when the viewer count is reached, else a fresh id stored with now.
claim ==
    LET pruned == _prune_locked(_sessions, monotonic)
        session_id == issued + 1
    IN /\ issued < MaxSessions
       /\ IF len(pruned) >= max_viewers
          THEN /\ _sessions' = pruned
               /\ UNCHANGED <<issued, viewers>>
          ELSE /\ _sessions' = [pruned EXCEPT ![session_id] =
                                   [present |-> TRUE, ts |-> monotonic]]
               /\ issued' = session_id
               /\ viewers' = [viewers EXCEPT ![session_id] =
                                 [claimed |-> TRUE, released |-> FALSE,
                                  last_seen |-> monotonic]]
       /\ UNCHANGED monotonic

\* WebRTCSessionManager.keepalive: True and a fresh timestamp for an id that is
\* stored, False for any other.
keepalive(session_id) ==
    /\ IF _sessions[session_id].present
       THEN /\ _sessions' = [_sessions EXCEPT ![session_id].ts = monotonic]
            /\ viewers' = [viewers EXCEPT ![session_id].last_seen = monotonic]
       ELSE UNCHANGED <<_sessions, viewers>>
    /\ UNCHANGED <<monotonic, issued>>

\* WebRTCSessionManager.release (POST /camera/webrtc/release, or the offer
\* route when the negotiation fails).
release(session_id) ==
    /\ viewers[session_id].claimed
    /\ _sessions' = [_sessions EXCEPT ![session_id] = NoSession]
    /\ viewers' = [viewers EXCEPT ![session_id].released = TRUE]
    /\ UNCHANGED <<monotonic, issued>>

\* Time passes.
Advances == {15, ttl_seconds + 1}
time_passes(d) ==
    /\ monotonic + d <= MaxCameraTime
    /\ monotonic' = monotonic + d
    /\ UNCHANGED <<_sessions, issued, viewers>>

InitRtc ==
    /\ monotonic = 0
    /\ _sessions = [sid \in SessionIds |-> NoSession]
    /\ issued = 0
    /\ viewers = [sid \in SessionIds |-> NoViewer]

(***************************************************************************)
(* PART 10 - the FTPS status and its debounce                              *)
(***************************************************************************)

NoStableTask == [sleeping |-> FALSE, due |-> 0]

\* FTPSService._notify_status: stores the status; the listener hears a change.
_notify_status(l, status) == [l EXCEPT !.ftps_status = status]

\* FTPSService._schedule_stable_connected: a running sleep is cancelled and a
\* new _set_connected_after_delay task begins.
_schedule_stable_connected(now) == [sleeping |-> TRUE, due |-> now + _stable_connect_delay]

\* FTPSService._connect_internal: nothing when the client is connected; on
\* success the client is kept and the debounce scheduled; on failure the
\* status becomes "disconnected".
_connect_internal(l, sc, now, ok) ==
    IF l.client THEN [link |-> l, stable_connect |-> sc, ok |-> TRUE]
    ELSE IF ok
    THEN [link |-> [l EXCEPT !.client = TRUE, !.connected_at = now],
          stable_connect |-> _schedule_stable_connected(now),
          ok |-> TRUE]
    ELSE [link |-> _notify_status(l, "disconnected"), stable_connect |-> sc, ok |-> FALSE]

\* FTPSService.start / the reconnect loop: connect().
connect(ok) ==
    /\ ~link.client
    /\ LET r == _connect_internal(link, stable_connect, ftp_time, ok)
       IN /\ link' = r.link
          /\ stable_connect' = r.stable_connect
    /\ UNCHANGED ftp_time

\* FTPSService._set_connected_after_delay, when its sleep is over.
_set_connected_after_delay ==
    /\ stable_connect.sleeping
    /\ ftp_time >= stable_connect.due
    /\ link' = IF link.client THEN _notify_status(link, "connected") ELSE link
    /\ stable_connect' = NoStableTask
    /\ UNCHANGED ftp_time

\* FTPSService._handle_client_connection_error: the client found its control
\* connection broken.
_handle_client_connection_error ==
    /\ link.client
    /\ link' = _notify_status([link EXCEPT !.client = FALSE], "disconnected")
    /\ UNCHANGED <<ftp_time, stable_connect>>

\* FTPSService.list_files_with_navigation: _ensure_connected (which connects
\* when there is no client), then LIST; a listing that succeeds publishes
\* "connected", one that fails or cannot begin publishes "reconnecting".
list_files_with_navigation(connect_ok, list_ok) ==
    /\ LET r == _connect_internal(link, stable_connect, ftp_time, connect_ok)
       IN /\ link' = IF ~r.ok THEN _notify_status(r.link, "reconnecting")
                     ELSE IF list_ok THEN _notify_status(r.link, "connected")
                     ELSE _notify_status(r.link, "reconnecting")
          /\ stable_connect' = r.stable_connect
    /\ UNCHANGED ftp_time

\* Half a second passes; a sleep that is over ends before more time passes.
stable_time_passes ==
    /\ ftp_time + (_stable_connect_delay \div 2) <= MaxFtpTime
    /\ ~(stable_connect.sleeping /\ ftp_time >= stable_connect.due)
    /\ ftp_time' = ftp_time + (_stable_connect_delay \div 2)
    /\ UNCHANGED <<link, stable_connect>>

InitStable ==
    /\ ftp_time = 0
    /\ link = [client |-> FALSE, connected_at |-> 0, ftps_status |-> "disconnected"]
    /\ stable_connect = NoStableTask

(***************************************************************************)
(* PART 11 - the upload state of the FTPS service                          *)
(***************************************************************************)

\* FTPSService._start_upload_state(status="preparing")
_start_upload_state(us) ==
    [active |-> TRUE, status |-> "preparing", generation |-> us.generation + 1]

\* FTPSService._update_upload_state: the first progress turns "preparing"
\* into "running"; nothing when the state is not active.
_update_upload_state(us) ==
    IF ~us.active THEN us
    ELSE IF us.status = "preparing" THEN [us EXCEPT !.status = "running"] ELSE us

\* FTPSService._mark_upload_cancelling
_mark_upload_cancelling(us) ==
    IF ~us.active THEN us ELSE [us EXCEPT !.status = "cancelling"]

\* FTPSService._finish_upload_state: nothing when the state is not active.
_finish_upload_state(us, status) ==
    IF ~us.active THEN us ELSE [us EXCEPT !.active = FALSE, !.status = status]

\* upload_stream up to its first await: the state is replaced by an active
\* "preparing" one and a new cancel event made.
upload_stream(overwrite) ==
    /\ upload.pc = "idle"
    /\ upload.calls < MaxUploads
    /\ _upload_state' = [active |-> TRUE, status |-> "preparing",
                         generation |-> _upload_state.generation + 1]
    /\ upload' = [upload EXCEPT !.pc = "ensure", !.overwrite = overwrite,
                                !.cancel_event = "clear", !.calls = @ + 1,
                                !.result = "running"]

\* _ensure_connected returns: without a connection the call returns False;
\* with one it goes on to the existence check or to the preparation.
upload_ensure_returns(ok) ==
    /\ upload.pc = "ensure"
    /\ IF ~ok
       THEN /\ upload' = [upload EXCEPT !.pc = "returned", !.result = "false"]
            /\ UNCHANGED _upload_state
       ELSE IF ~upload.overwrite
       THEN /\ upload' = [upload EXCEPT !.pc = "file_exists"]
            /\ UNCHANGED _upload_state
       ELSE /\ upload' = [upload EXCEPT !.pc = "prepare"]
            /\ _upload_state' = _start_upload_state(_upload_state)

\* client.file_exists returns: FTPFileExistsError leaves the call when the
\* file exists, False is returned on an FTPError.
upload_file_exists_returns(answer) ==
    /\ upload.pc = "file_exists"
    /\ CASE answer = "exists" ->
               /\ upload' = [upload EXCEPT !.pc = "returned", !.result = "FTPFileExistsError"]
               /\ UNCHANGED _upload_state
         [] answer = "error" ->
               /\ upload' = [upload EXCEPT !.pc = "returned", !.result = "false"]
               /\ UNCHANGED _upload_state
         [] OTHER ->
               /\ upload' = [upload EXCEPT !.pc = "prepare"]
               /\ _upload_state' = _start_upload_state(_upload_state)

\* _prepare_upload_stream returns (or raises): a cancel seen here ends the
\* call, else the transfer begins in the executor.
upload_prepare_returns(ok) ==
    /\ upload.pc = "prepare"
    /\ IF ~ok
       THEN /\ _upload_state' = _finish_upload_state(_upload_state, "error")
            /\ upload' = [upload EXCEPT !.pc = "returned", !.result = "false",
                                        !.cancel_event = "none"]
       ELSE IF upload.cancel_requested \/ upload.cancel_event = "set"
       THEN /\ _upload_state' = _finish_upload_state(_upload_state, "cancelled")
            /\ upload' = [upload EXCEPT !.pc = "returned", !.result = "UploadCancelledError",
                                        !.cancel_requested = FALSE, !.cancel_event = "none"]
       ELSE /\ _upload_state' = _update_upload_state(_upload_state)
            /\ upload' = [upload EXCEPT !.pc = "transfer"]

\* upload_file_blocking ends in the executor: done, stopped by the cancel
\* event, or failed.
upload_transfer_returns(outcome) ==
    /\ upload.pc = "transfer"
    /\ (outcome = "cancelled") => upload.cancel_event = "set"
    /\ _upload_state' =
          _finish_upload_state(_upload_state,
              CASE outcome = "completed" -> "completed"
                [] outcome = "cancelled" -> "cancelled"
                [] OTHER -> "error")
    /\ upload' = [upload EXCEPT !.pc = "returned", !.cancel_event = "none",
                     !.result = CASE outcome = "completed" -> "true"
                                  [] outcome = "cancelled" -> "UploadCancelledError"
                                  [] OTHER -> "false"]

\* FTPSService.cancel_upload
cancel_upload ==
    /\ upload.pc # "returned"
    /\ IF ~_upload_state.active
       THEN /\ ~upload.cancel_requested
            /\ upload' = [upload EXCEPT !.cancel_requested = TRUE]
            /\ UNCHANGED _upload_state
       ELSE /\ upload.cancel_event # "set"
            /\ upload' = [upload EXCEPT !.cancel_event = "set"]
            /\ _upload_state' = _mark_upload_cancelling(_upload_state)

\* The caller has the result; the service is ready for another upload.
upload_done ==
    /\ upload.pc = "returned"
    /\ upload' = [upload EXCEPT !.pc = "idle"]
    /\ UNCHANGED _upload_state

InitUpload ==
    /\ _upload_state = [active |-> FALSE, status |-> "idle", generation |-> 0]
    /\ upload = [pc |-> "idle", overwrite |-> TRUE, cancel_event |-> "none",
                 cancel_requested |-> FALSE, calls |-> 0, result |-> "none"]

(***************************************************************************)
(* PART 12 - camera engine                                                 *)
(***************************************************************************)

\* BambuCameraEngine._update_status (the reason text is left out)
_update_status(c, status) == [c EXCEPT !.status = status]

\* A variant of _handle_stall that never gives the connection up.
_handle_stall_always_warning(c) == _update_status(c, "stall_warning")

\* BambuCameraEngine._handle_stall
_handle_stall(c) ==
    IF c.stall_count >= DEFAULT_STALL_THRESHOLD
    THEN _update_status(c, "reconnecting")
    ELSE _update_status(c, "stall_warning")

\* _camera_loop after _connect_and_stream has returned: the wait while the
\* reconnect is paused, else the sleep before the next connection.
after_connection(c) ==
    [c EXCEPT !.pc = IF c.reconnect_paused THEN "pause_wait" ELSE "retry_sleep"]

\* BambuCameraEngine.start
engine_start ==
    /\ ~cam_engine.is_streaming
    /\ cam_engine' = [_update_status(cam_engine, "connecting") EXCEPT
                  !.is_streaming = TRUE, !.pc = "connect", !.stall_count = 0]

\* BambuCameraEngine.stop: the loop's task is cancelled where it waits.
engine_stop ==
    /\ cam_engine.is_streaming
    /\ cam_engine' = [_update_status(cam_engine, "stopped") EXCEPT
                  !.is_streaming = FALSE, !.pc = "stopped"]

\* BambuCameraEngine.set_reconnect_paused, from the orchestrator's gate.
engine_set_reconnect_paused(paused) ==
    /\ cam_engine.reconnect_paused # paused
    /\ cam_engine' = [cam_engine EXCEPT !.reconnect_paused = paused]

\* _connect_and_stream: the connection and authentication succeed or fail.
camera_connects(ok) ==
    /\ cam_engine.pc = "connect"
    /\ cam_engine' = IF ok
              THEN [_update_status(cam_engine, "connecting") EXCEPT !.pc = "read", !.frame_count = 0]
              ELSE after_connection(_update_status(cam_engine, "reconnecting"))

\* _stream_frames: reader.read times out after 10 s.
read_times_out ==
    /\ cam_engine.pc = "read"
    /\ LET counted == [cam_engine EXCEPT !.stall_count = @ + 1]
           stalled == _handle_stall(counted)
       IN cam_engine' = IF stalled.stall_count >= DEFAULT_STALL_THRESHOLD
                 THEN after_connection(stalled)
                 ELSE stalled

\* _stream_frames: bytes arrive; a complete frame is kept unless it comes
\* sooner than cam_interval after the last one.
read_returns(complete, throttled) ==
    /\ cam_engine.pc = "read"
    /\ cam_engine.frame_count < MaxFrames
    /\ cam_engine' = IF complete /\ ~throttled
              THEN [_update_status(cam_engine, "streaming") EXCEPT
                       !.stall_count = 0, !.frame_count = @ + 1]
              ELSE cam_engine

\* _stream_frames: the printer closes the stream.
stream_closes ==
    /\ cam_engine.pc = "read"
    /\ cam_engine' = after_connection(_update_status(cam_engine, "reconnecting"))

\* _camera_loop: the one-second wait while paused ends and the gate is lifted.
pause_wait_ends ==
    /\ cam_engine.pc = "pause_wait"
    /\ ~cam_engine.reconnect_paused
    /\ cam_engine' = [cam_engine EXCEPT !.pc = "retry_sleep"]

\* _camera_loop: the sleep before reconnecting ends; the next round begins.
retry_sleep_ends ==
    /\ cam_engine.pc = "retry_sleep"
    /\ cam_engine' = [cam_engine EXCEPT !.pc = "connect", !.stall_count = 0]

InitCam ==
    cam_engine = [is_streaming |-> FALSE, reconnect_paused |-> FALSE, status |-> "stopped",
           stall_count |-> 0, pc |-> "stopped", frame_count |-> 0]

\* ServiceRegistry.shutdown() (application exit, POST /services/restart):
\* LifecycleManager.stop runs ConnectionOrchestrator.stop, which cancels the
\* orchestrator's task and runs _stop_services; cancel_tracked finds no task,
\* as nothing calls track_task.
shutdown ==
    /\ lifecycle_started
    /\ conn.pc = "idle"
    /\ services' = [services EXCEPT ![generation] = _stop_services(conn, @)]
    /\ presence' = presence_after_stop(conn)
    /\ conn' = [conn EXCEPT !.running = FALSE, !.started.mqtt = FALSE,
                            !.started.presence = FALSE]
    /\ lifecycle_started' = FALSE
    /\ UNCHANGED <<active_printer, generation, forwarded_active>>

\* stream_state when the client is gone before the response begins: the
\* handler has subscribed and built the snapshot, and the event_stream
\* generator is closed without having been started, so its try/finally -
\* the only caller of unsubscribe - is never entered.
stream_state_never_started(s, p, now) ==
    /\ sub[s].status = "idle"
    /\ subscribers' = subscribers \cup {s}
    /\ versions' = [versions EXCEPT ![p] = next_version(p)]
    /\ cache_snapshot(p, _serialize_state(state[p], now))
    /\ sub' = [sub EXCEPT ![s] =
                 [status |-> "closed", printer_id |-> p, queue |-> <<>>,
                  received |-> <<>>]]
    /\ UNCHANGED <<master, state, applied>>

(***************************************************************************)
(* PART 13 - StateOrchestrator._deep_merge on nested JSON                  *)
(***************************************************************************)

\* A JSON value: null, a string (a sequence of characters, " " for any
\* whitespace) or an object (a function from its keys to JSON values).
NoItems == [k \in {} |-> [kind |-> "null"]]
JsonNull == [kind |-> "null", text |-> <<>>, items |-> NoItems]
JsonStr(text) == [kind |-> "str", text |-> text, items |-> NoItems]
JsonDict(items) == [kind |-> "dict", text |-> <<>>, items |-> items]

\* A variant of the test below that lets "0/0" through as a value.
is_no_update_without_zero_of_zero(value) ==
    \/ value.kind = "null"
    \/ /\ value.kind = "str"
       /\ \/ value.text \in {<<>>, <<"?">>}
          \/ lstrip(rstrip(value.text)) = <<>>

\* _deep_merge's test for "no update": value in (None, "", "?", "0/0"), or a
\* string that is empty after strip().
is_no_update(value) ==
    \/ value.kind = "null"
    \/ /\ value.kind = "str"
       /\ \/ value.text \in {<<>>, <<"?">>, <<"0/0">>}
          \/ lstrip(rstrip(value.text)) = <<>>

\* StateOrchestrator._deep_merge(master, new) on two objects.
RECURSIVE _deep_merge_dict(_, _)
_deep_merge_dict(dict_master, new) ==
    LET both(key) == /\ key \in DOMAIN new.items
                     /\ new.items[key].kind = "dict"
                     /\ key \in DOMAIN dict_master.items
                     /\ dict_master.items[key].kind = "dict"
        set(key) == key \in DOMAIN new.items /\ ~both(key) /\ ~is_no_update(new.items[key])
        keys == DOMAIN dict_master.items \cup {key \in DOMAIN new.items : set(key)}
    IN JsonDict([key \in keys |->
                    IF both(key) THEN _deep_merge_dict(dict_master.items[key], new.items[key])
                    ELSE IF set(key) THEN new.items[key]
                    ELSE dict_master.items[key]])

\* The payloads: one key "a" whose value is null, a string or an object with
\* at most the key "x".
JsonTexts == {<<>>, <<" ">>, <<"?">>, <<"0/0">>, <<"v1">>, <<"v2">>}
JsonLeaves == {JsonNull} \cup {JsonStr(text) : text \in JsonTexts}
JsonObjects == {JsonDict(NoItems)} \cup {JsonDict([key \in {"x"} |-> leaf]) : leaf \in JsonLeaves}
JsonPayloads ==
    {JsonDict(NoItems)} \cup {JsonDict([key \in {"a"} |-> value]) : value \in JsonLeaves \cup JsonObjects}

\* update_print_data's store update: master_data = _deep_merge(master_data, payload).
merge_payload(payload) ==
    /\ Len(merged) < MaxPayloads
    /\ master_data' = _deep_merge_dict(master_data, payload)
    /\ merged' = Append(merged, [before |-> master_data, payload |-> payload])

InitMerge ==
    /\ master_data = JsonDict(NoItems)
    /\ merged = <<>>

(***************************************************************************)
(* PART 14 - Backoff and the retry loops that use it                       *)
(***************************************************************************)

\* base_delay * factor ** attempt, the factor given in tenths; the product is
\* taken one factor at a time so that it stays within the integers of the
\* model checker.
RECURSIVE raw_delay(_, _)
raw_delay(b, attempt) ==
    IF attempt = 0 THEN b.base_delay
    ELSE (raw_delay(b, attempt - 1) * b.factor_tenths) \div 10

\* Backoff._calculate_max_attempts_for_max_delay: the least n >= 1 with
\* base_delay * factor ** n >= max_delay (0 when there is nothing to grow).
RECURSIVE attempts_from(_, _)
attempts_from(b, n) == IF raw_delay(b, n) >= b.max_delay THEN n ELSE attempts_from(b, n + 1)
_calculate_max_attempts_for_max_delay(b) ==
    IF b.factor_tenths <= 10 \/ b.base_delay >= b.max_delay THEN 0 ELSE attempts_from(b, 1)

Min(a, b) == IF a < b THEN a ELSE b

\* Backoff.next_delay for a Backoff at the given attempt; u in {-1, 0, 1}
\* picks the lowest, the middle or the highest value random.uniform can give.
next_delay(b, attempt, u) ==
    LET delay == Min(b.max_delay,
                     IF attempt >= _calculate_max_attempts_for_max_delay(b)
                     THEN b.max_delay ELSE raw_delay(b, attempt))
        offset == (delay * b.jitter_percent) \div 100
    IN delay + u * offset

\* Backoff(base_delay, factor=1.8, max_delay, jitter=0.1) as each loop builds
\* it: MQTTService, PrinterCacheWatcher, FTPSService and the go2rtc monitor of
\* CameraService.  BambuCameraEngine._camera_loop has no Backoff: it sleeps 5 s.
RetryLoops == {"mqtt", "presence", "ftps", "camera", "relay"}
BackoffOf(l) ==
    CASE l = "mqtt" -> [base_delay |-> 5000, factor_tenths |-> 18, max_delay |-> 60000,
                        jitter_percent |-> 10]
      [] l = "presence" -> [base_delay |-> 5000, factor_tenths |-> 18, max_delay |-> 30000,
                            jitter_percent |-> 10]
      [] l = "ftps" -> [base_delay |-> 5000, factor_tenths |-> 18, max_delay |-> 60000,
                        jitter_percent |-> 10]
      [] l = "relay" -> [base_delay |-> 2000, factor_tenths |-> 15, max_delay |-> 30000,
                         jitter_percent |-> 10]
      [] OTHER -> [base_delay |-> 5000, factor_tenths |-> 10, max_delay |-> 5000,
                   jitter_percent |-> 0]

TotalFailures ==
    retry_failures["mqtt"] + retry_failures["presence"] + retry_failures["ftps"]
        + retry_failures["camera"] + retry_failures["relay"]

\* A loop's connection attempt fails (or its session ends) and the loop
\* sleeps before the next one.
retry_fails(l, u) ==
    /\ TotalFailures < MaxRetries
    /\ retry_failures' = [retry_failures EXCEPT ![l] = @ + 1]
    /\ IF l = "camera"
       THEN /\ last_retry' = [loop |-> l, delay |-> 5000]
            /\ UNCHANGED retry_attempt
       ELSE /\ last_retry' = [loop |-> l,
                              delay |-> next_delay(BackoffOf(l), retry_attempt[l], u)]
            /\ retry_attempt' = [retry_attempt EXCEPT ![l] = @ + 1]

\* A loop connects: Backoff.reset.
retry_succeeds(l) ==
    /\ retry_failures[l] > 0
    /\ retry_failures' = [retry_failures EXCEPT ![l] = 0]
    /\ retry_attempt' = [retry_attempt EXCEPT ![l] = 0]
    /\ last_retry' = [loop |-> "none", delay |-> 0]

InitRetry ==
    /\ retry_attempt = [l \in RetryLoops |-> 0]
    /\ retry_failures = [l \in RetryLoops |-> 0]
    /\ last_retry = [loop |-> "none", delay |-> 0]

(***************************************************************************)
(* PART 15 - deleting printer definitions                                  *)
(***************************************************************************)

PrinterIds == {"p1", "p2", "p3"}
NoPrinter == "none"
DeleteRequests == {"r1", "r2"}

Ids(printers) == {printers[i] : i \in 1..Len(printers)}

\* [printer for printer in printers if printer.id != printer_id]
RECURSIVE Without(_, _)
Without(printers, printer_id) ==
    IF printers = <<>> THEN <<>>
    ELSE IF Head(printers) = printer_id THEN Without(Tail(printers), printer_id)
    ELSE <<Head(printers)>> \o Without(Tail(printers), printer_id)

\* config.remove_printer on the file as it is when the call is made; the
\* caller has checked that printer_id is in it.
config_remove_printer(cfg, printer_id) ==
    LET remaining == Without(cfg.printers, printer_id)
    IN [printers |-> remaining,
        default_printer_id |->
            IF cfg.default_printer_id = printer_id
            THEN IF remaining # <<>> THEN remaining[1] ELSE NoPrinter
            ELSE cfg.default_printer_id]

\* delete_printer up to the end of `await list_printer_definitions_async()`:
\* the request holds the list it read from the file.
delete_printer_lists(r, printer_id) ==
    /\ delete_req[r].pc = "idle"
    /\ deletes_started < MaxDeletes
    /\ deletes_started' = deletes_started + 1
    /\ delete_req' = [delete_req EXCEPT ![r] =
           [pc |-> "listed", printer_id |-> printer_id, printers |-> config.printers]]
    /\ UNCHANGED <<config, settings_printer_id>>

\* delete_printer from the checks on the list it read to its return.
delete_printer_removes(r) ==
    LET printer_id == delete_req[r].printer_id
        printers == delete_req[r].printers
        updated_config == config_remove_printer(config, printer_id)
    IN /\ delete_req[r].pc = "listed"
       /\ delete_req' = [delete_req EXCEPT ![r] =
              [pc |-> "idle", printer_id |-> NoPrinter, printers |-> <<>>]]
       /\ UNCHANGED deletes_started
       /\ IF printer_id \notin Ids(printers) \/ Len(printers) <= 1
             \/ printer_id \notin Ids(config.printers)
          THEN \* NotFoundError, ConflictError, or remove_printer's ValueError
               UNCHANGED <<config, settings_printer_id>>
          ELSE /\ config' = updated_config
               /\ IF settings_printer_id = printer_id /\ updated_config.printers # <<>>
                  THEN settings_printer_id' = updated_config.printers[1]
                  ELSE UNCHANGED settings_printer_id

InitConfig ==
    /\ config = [printers |-> <<"p1", "p2", "p3">>, default_printer_id |-> "p1"]
    /\ settings_printer_id = "p1"
    /\ delete_req = [r \in DeleteRequests |->
                        [pc |-> "idle", printer_id |-> NoPrinter, printers |-> <<>>]]
    /\ deletes_started = 0

(***************************************************************************)
(* PART 16 - what StateRepository hands to its readers                     *)
(*                                                                         *)
(* A stored value is an object with a field of its own (text) and a nested *)
(* object (child, an address into the heap), as PrinterState holds its     *)
(* sub-models and master_data holds the "print" dictionary.                *)
(***************************************************************************)

Readers == {"reader1", "reader2"}
Texts == {"v0", "v1"}
Free == [text |-> "v0", child |-> 0]

\* The contents of the value at an address, nested object included.
Contents(h, a) == [text |-> h[a].text, nested |-> h[h[a].child].text]

\* store.state.copy(deep=True): a new object whose nested object is new too.
deep_copy(h, a, n) ==
    [h EXCEPT ![n] = [text |-> h[a].text, child |-> n + 1],
              ![n + 1] = h[h[a].child]]

\* store.master_data.copy(): a new dictionary holding the same values, the
\* nested dictionary being the one the store holds.
dict_copy(h, a, n) == [h EXCEPT ![n] = h[a]]

\* StateRepository.get_state for a reader.
get_state(r) ==
    /\ allocated + 2 <= MaxObjects
    /\ heap' = deep_copy(heap, store_refs.state, allocated + 1)
    /\ allocated' = allocated + 2
    /\ returned' = [returned EXCEPT ![r] = allocated + 1]
    /\ UNCHANGED <<store_refs, written>>

\* StateRepository.get_master_data for a reader.
get_master_data(r) ==
    /\ allocated + 1 <= MaxObjects
    /\ heap' = dict_copy(heap, store_refs.master_data, allocated + 1)
    /\ allocated' = allocated + 1
    /\ returned' = [returned EXCEPT ![r] = allocated + 1]
    /\ UNCHANGED <<store_refs, written>>

\* A reader changes the value it holds, at the top (depth 1) or inside the
\* nested object (depth 2).
reader_mutates(r, depth, text) ==
    /\ returned[r] # 0
    /\ LET a == IF depth = 1 THEN returned[r] ELSE heap[returned[r]].child
       IN /\ heap[a].text # text
          /\ heap' = [heap EXCEPT ![a].text = text]
    /\ UNCHANGED <<allocated, store_refs, returned, written>>

\* The writer (update_store) changes the stored values in place.
writer_updates(which, depth, text) ==
    /\ LET root == IF which = "state" THEN store_refs.state ELSE store_refs.master_data
           a == IF depth = 1 THEN root ELSE heap[root].child
       IN /\ heap[a].text # text
          /\ heap' = [heap EXCEPT ![a].text = text]
          /\ written' = [written EXCEPT ![which] = Contents(heap', root)]
    /\ UNCHANGED <<allocated, store_refs, returned>>

InitCopy ==
    /\ heap = [a \in 0..(MaxObjects + 1) |->
                  IF a = 1 THEN [text |-> "v0", child |-> 2]
                  ELSE IF a = 3 THEN [text |-> "v0", child |-> 4]
                  ELSE Free]
    /\ allocated = 4
    /\ store_refs = [state |-> 1, master_data |-> 3]
    /\ returned = [r \in Readers |-> 0]
    /\ written = [state |-> [text |-> "v0", nested |-> "v0"],
                  master_data |-> [text |-> "v0", nested |-> "v0"]]

(***************************************************************************)
(* PART 17 - PrintDataParser: remaining time and finish time               *)
(*                                                                         *)
(* A JSON value is [kind, num, text]: kind "int" and "bool" carry num,     *)
(* kind "float" carries its value in tenths, kind "str" carries its        *)
(* characters, kind "null" stands for null and for a missing key.          *)
(***************************************************************************)

JInt(n) == [kind |-> "int", num |-> n, text |-> <<>>]
JFloat(tenths) == [kind |-> "float", num |-> tenths, text |-> <<>>]
JBool(b) == [kind |-> "bool", num |-> IF b THEN 1 ELSE 0, text |-> <<>>]
JStr(chars) == [kind |-> "str", num |-> 0, text |-> chars]
JNull == [kind |-> "null", num |-> 0, text |-> <<>>]

DigitChars == <<"0", "1", "2", "3", "4", "5", "6", "7", "8", "9">>
DigitValue(c) == (CHOOSE i \in 1..10 : DigitChars[i] = c) - 1

\* str.isdigit
isdigit(chars) ==
    /\ chars # <<>>
    /\ \A i \in 1..Len(chars) : \E d \in 1..10 : DigitChars[d] = chars[i]

\* int(str) of a string of digits
RECURSIVE int_of_digits(_)
int_of_digits(chars) ==
    IF chars = <<>> THEN 0
    ELSE 10 * int_of_digits(SubSeq(chars, 1, Len(chars) - 1)) + DigitValue(chars[Len(chars)])

\* int(float): truncation towards zero, the float given in tenths
int_of_float(tenths) == IF tenths >= 0 THEN tenths \div 10 ELSE -((-tenths) \div 10)

\* PrintDataParser._format_remaining
_format_remaining(value) ==
    IF value.kind \in {"int", "bool"} THEN value.num
    ELSE IF value.kind = "float" THEN int_of_float(value.num)
    ELSE IF value.kind = "str" /\ isdigit(value.text) THEN int_of_digits(value.text)
    ELSE 0

\* strftime("%H:%M") of a minute of the day
strftime_HM(minute) ==
    LET h == (minute % 1440) \div 60
        m == minute % 60
    IN <<DigitChars[(h \div 10) + 1], DigitChars[(h % 10) + 1], ":",
         DigitChars[(m \div 10) + 1], DigitChars[(m % 10) + 1]>>

\* PrintDataParser._format_finish, datetime.now() given as a minute of the day
_format_finish(remaining, now) ==
    IF remaining > 0 THEN strftime_HM(now + remaining) ELSE <<"-">>

RemainingValues ==
    {JInt(n) : n \in {-1, 0, 1, 90}}
        \cup {JFloat(t) : t \in {-15, -5, 5, 25}}
        \cup {JBool(TRUE), JNull}
        \cup {JStr(c) : c \in {<<>>, <<"7">>, <<"1", "2">>, <<"-", "3">>, <<"1", ".", "5">>}}

Clock == {0, 725, 1439}

\* PrintDataParser.parse, as far as remaining_time and finish_time go
parse_print(value, now) ==
    /\ parses < MaxParses
    /\ parses' = parses + 1
    /\ mc_remaining_time' = value
    /\ LET remaining_val == _format_remaining(value)
       IN print_status' = [remaining_time |-> remaining_val,
                           finish_time |-> _format_finish(remaining_val, now)]

InitRemain ==
    /\ mc_remaining_time = JNull
    /\ print_status = [remaining_time |-> 0, finish_time |-> <<"-">>]
    /\ parses = 0

(***************************************************************************)
(* PART 18 - enforce_admin                                                 *)
(*                                                                         *)
(* The admin token is configured; the allowlist names two of the three     *)
(* addresses that send requests.                                           *)
(***************************************************************************)

Ips == {"10.0.0.1", "10.0.0.2", "10.0.0.3"}
admin_allowlist == {"10.0.0.1", "10.0.0.2"}

\* while bucket and now - bucket[0] > _rate_window_s: bucket.popleft()
RECURSIVE popleft_old(_, _)
popleft_old(bucket, now) ==
    IF bucket # <<>> /\ now - Head(bucket) > _rate_window_s
    THEN popleft_old(Tail(bucket), now)
    ELSE bucket

\* A variant of enforce_admin that never raises TooManyRequestsError.
enforce_admin_without_limit(ip, token_ok) ==
    LET bucket == popleft_old(_hits[ip], wall_clock)
    IN /\ admin_requests < MaxRequests
       /\ admin_requests' = admin_requests + 1
       /\ UNCHANGED wall_clock
       /\ IF ip \notin admin_allowlist
          THEN /\ last_request' = [ip |-> ip, time |-> wall_clock, status |-> 403]
               /\ UNCHANGED <<_hits, passed, limited>>
          ELSE /\ _hits' = [_hits EXCEPT ![ip] = Append(bucket, wall_clock)]
               /\ passed' = [passed EXCEPT ![ip] = Append(@, wall_clock)]
               /\ UNCHANGED limited
               /\ last_request' = [ip |-> ip, time |-> wall_clock,
                                   status |-> IF token_ok THEN 200 ELSE 401]

\* enforce_admin for a request from ip that carries the right token or not.
enforce_admin(ip, token_ok) ==
    LET bucket == popleft_old(_hits[ip], wall_clock)
    IN /\ admin_requests < MaxRequests
       /\ admin_requests' = admin_requests + 1
       /\ UNCHANGED wall_clock
       /\ IF ip \notin admin_allowlist
          THEN /\ last_request' = [ip |-> ip, time |-> wall_clock, status |-> 403]
               /\ UNCHANGED <<_hits, passed, limited>>
          ELSE IF Len(bucket) >= _rate_limit
          THEN /\ _hits' = [_hits EXCEPT ![ip] = bucket]
               /\ last_request' = [ip |-> ip, time |-> wall_clock, status |-> 429]
               /\ limited' = [limited EXCEPT ![ip] = @ + 1]
               /\ UNCHANGED passed
          ELSE /\ _hits' = [_hits EXCEPT ![ip] = Append(bucket, wall_clock)]
               /\ passed' = [passed EXCEPT ![ip] = Append(@, wall_clock)]
               /\ UNCHANGED limited
               /\ last_request' = [ip |-> ip, time |-> wall_clock,
                                   status |-> IF token_ok THEN 200 ELSE 401]

\* Half a window passes.
admin_time_passes ==
    /\ wall_clock + (_rate_window_s \div 2) <= MaxAdminTime
    /\ wall_clock' = wall_clock + (_rate_window_s \div 2)
    /\ UNCHANGED <<_hits, passed, last_request, limited, admin_requests>>

InitAdmin ==
    /\ wall_clock = 0
    /\ _hits = [ip \in Ips |-> <<>>]
    /\ passed = [ip \in Ips |-> <<>>]
    /\ limited = [ip \in Ips |-> 0]
    /\ last_request = [ip |-> "none", time |-> 0, status |-> 0]
    /\ admin_requests = 0

(***************************************************************************)
(* PART 19 - the state an SSE client reconstructs                          *)
(*                                                                         *)
(* A diff event carries, for every path of _diff_dict, the current value;  *)
(* a client applies it by overwriting those paths.  A snapshot event       *)
(* replaces the whole state.                                               *)
(***************************************************************************)

\* The client side of a diff event.
apply_changes(old, changes, current) ==
    [k \in DOMAIN old |-> IF k \in changes THEN current[k] ELSE old[k]]

\* The events StateStreamService._handle_state_update queues after the writer
\* stored state'[p], applied by the clients they are queued for.
held_after_notify(p, now) ==
    LET current == _serialize_state(state'[p], now)
        kind == _build_diff_kind(p, current)
        changes == _diff_dict(snapshots[p], current) \ {"server_info"}
    IN client_state' = [s \in SubIds |->
                  IF kind = "none" \/ s \notin subscribers' \/ sub[s].printer_id # p
                  THEN client_state[s]
                  ELSE IF kind = "snapshot" THEN current.state
                  ELSE apply_changes(client_state[s], changes, current.state)]

\* The snapshot event that seeds a connection: build_snapshot's state.
held_after_seed(s, p) == client_state' = [client_state EXCEPT ![s] = state[p]]

InitHeld == client_state = [s \in SubIds |-> DefaultState]

(***************************************************************************)
(* PART 20 - TaskQueue._worker under TaskQueue.stop                        *)
(*                                                                         *)
(* The worker task is at "get" (in await self._queue.get()), at            *)
(* "await_task" (in await task), "exited", or "none" before start.  A job  *)
(* task is "running", "cancelling" (cancel() was called on it and          *)
(* CancelledError is raised at its next step) or "done".  Cancelling a     *)
(* task that awaits another task cancels the awaited one; the awaiting     *)
(* task is resumed with CancelledError when that one has ended.  A job     *)
(* cancelled in its download awaits stream.aclose() in its handler, and    *)
(* one cancelled inside BambuFtpClient.close() runs on, so a cancelled job *)
(* may end any number of loop iterations after the cancel() call.          *)
(***************************************************************************)

\* future.cancel() with the done callback _cancel_task of TaskQueue._worker
cancel_future(jb) ==
    IF jb.future # "pending" THEN jb
    ELSE [future |-> "cancelled",
          task |-> IF jb.task = "running" THEN "cancelling" ELSE jb.task]

\* PrintJobService.prepare_file: the old job's future is cancelled, the new
\* job is submitted (TaskQueue.submit starts the queue if it is not running).
queue_submit ==
    LET old == tq_active
        cancelled == IF old # 0 THEN [tq_jobs EXCEPT ![old] = cancel_future(@)] ELSE tq_jobs
    IN /\ sd = "idle"
       /\ Len(tq_jobs) < MaxQueueJobs
       /\ tq_jobs' = Append(cancelled, [future |-> "pending", task |-> "none"])
       /\ tq_queue' = Append(tq_queue, Len(tq_jobs) + 1)
       /\ tq_active' = Len(tq_jobs) + 1
       /\ tq' = IF tq.running THEN tq
                ELSE [running |-> TRUE, worker |-> "get", current |-> 0]
       /\ UNCHANGED sd

\* PrintJobService.cancel
job_cancel ==
    /\ sd = "idle"
    /\ tq_active # 0
    /\ tq_jobs[tq_active].future = "pending"
    /\ tq_jobs' = [tq_jobs EXCEPT ![tq_active] = cancel_future(@)]
    /\ UNCHANGED <<tq, tq_queue, tq_active, sd>>

\* TaskQueue._worker from queue.get() returning to "await task".
queue_worker_takes ==
    /\ tq.worker = "get"
    /\ tq_queue # <<>>
    /\ LET j == Head(tq_queue)
       IN IF tq_jobs[j].future = "cancelled"
          THEN UNCHANGED <<tq, tq_jobs>>
          ELSE /\ tq' = [tq EXCEPT !.worker = "await_task", !.current = j]
               /\ tq_jobs' = [tq_jobs EXCEPT ![j].task = "running"]
    /\ tq_queue' = Tail(tq_queue)
    /\ UNCHANGED <<tq_active, sd>>

\* The job runs to its end; "await task" returns, the worker sets the result
\* and goes back to queue.get().
queue_task_ends ==
    /\ tq.worker = "await_task"
    /\ tq_jobs[tq.current].task = "running"
    /\ tq_jobs' = [tq_jobs EXCEPT ![tq.current] = [future |-> "done", task |-> "done"]]
    /\ tq' = [tq EXCEPT !.worker = "get", !.current = 0]
    /\ UNCHANGED <<tq_queue, tq_active, sd>>

\* CancelledError is raised in the job, which writes the cancelled state and
\* re-raises; "await task" raises CancelledError in the worker, whose except
\* clause cancels the future if it is not done, and the loop goes on to
\* queue.get().
queue_task_cancelled ==
    /\ tq.worker = "await_task"
    /\ tq_jobs[tq.current].task = "cancelling"
    /\ tq_jobs' = [tq_jobs EXCEPT ![tq.current].task = "done",
                                  ![tq.current].future = "cancelled"]
    /\ tq' = [tq EXCEPT !.worker = "get", !.current = 0]
    /\ UNCHANGED <<tq_queue, tq_active, sd>>

\* PrintJobService.shutdown up to its first suspension: the active job's
\* future is cancelled and gathered; with no entry it goes on to stop().
job_service_shutdown ==
    /\ sd = "idle"
    /\ IF tq_active # 0
       THEN /\ tq_jobs' = [tq_jobs EXCEPT ![tq_active] = cancel_future(@)]
            /\ sd' = "gather_jobs"
       ELSE /\ UNCHANGED tq_jobs
            /\ sd' = "stop"
    /\ UNCHANGED <<tq, tq_queue, tq_active>>

\* The gather of the futures returns (a cancelled or done future is done);
\* _active_jobs is cleared.
shutdown_gathered ==
    /\ sd = "gather_jobs"
    /\ tq_jobs[tq_active].future # "pending"
    /\ tq_active' = 0
    /\ sd' = "stop"
    /\ UNCHANGED <<tq, tq_queue, tq_jobs>>

\* TaskQueue.stop up to its gather: the worker task is cancelled.  A worker
\* in queue.get() ends with CancelledError; for a worker in "await task" the
\* cancellation goes to the job task.
queue_stop ==
    /\ sd = "stop"
    /\ IF ~tq.running
       THEN /\ sd' = "returned"
            /\ UNCHANGED <<tq, tq_jobs>>
       ELSE /\ sd' = "stop_gather"
            /\ IF tq.worker = "get"
               THEN /\ tq' = [tq EXCEPT !.running = FALSE, !.worker = "exited"]
                    /\ UNCHANGED tq_jobs
               ELSE /\ tq' = [tq EXCEPT !.running = FALSE]
                    /\ tq_jobs' = [tq_jobs EXCEPT ![tq.current].task =
                                       IF @ = "running" THEN "cancelling" ELSE @]
    /\ UNCHANGED <<tq_queue, tq_active>>

\* The gather of the workers returns once the worker task has ended.
queue_stop_returns ==
    /\ sd = "stop_gather"
    /\ tq.worker = "exited"
    /\ sd' = "returned"
    /\ tq' = [tq EXCEPT !.worker = "none"]
    /\ UNCHANGED <<tq_queue, tq_jobs, tq_active>>

InitQueue ==
    /\ tq = [running |-> FALSE, worker |-> "none", current |-> 0]
    /\ tq_queue = <<>>
    /\ tq_jobs = <<>>
    /\ tq_active = 0
    /\ sd = "idle"

(***************************************************************************)
(* PART 21 - the connection listener of the FTPS services                  *)
(*                                                                         *)
(* _build_services makes a new FTPSService for the printer of the new      *)
(* settings; the service of the previous printer is paused, not stopped:   *)
(* it keeps its client and its _stable_connect_task.                       *)
(***************************************************************************)

InstanceIds == 1..(MaxRebuilds + 1)
NoInstance ==
    [printer |-> "none", client |-> FALSE, ftps_status |-> "disconnected",
     stable_connect_task |-> FALSE]

\* The listener of _wire_ftps_connection, called by instance i: the lambda
\* reads self.settings.printer_id when it is called.
on_connection_change(i, status) ==
    /\ printer_ftps_status' = [printer_ftps_status EXCEPT ![settings_id] = status]
    /\ last_status_write' = [instance |-> i, printer |-> settings_id]

\* FTPSService._notify_status of instance i
wired_notify_status(i, status) ==
    IF ftps_instances[i].ftps_status = status
    THEN UNCHANGED <<printer_ftps_status, last_status_write>>
    ELSE on_connection_change(i, status)

\* The service of the active printer connects: _schedule_stable_connected.
wired_connect(i) ==
    /\ i = ftps_built
    /\ ~ftps_instances[i].client
    /\ ftps_instances' = [ftps_instances EXCEPT ![i].client = TRUE,
                                                ![i].stable_connect_task = TRUE]
    /\ UNCHANGED <<settings_id, ftps_built, printer_ftps_status, last_status_write>>

\* FTPSService._set_connected_after_delay of instance i, after its sleep.
wired_set_connected_after_delay(i) ==
    /\ ftps_instances[i].stable_connect_task
    /\ IF ftps_instances[i].client
       THEN /\ wired_notify_status(i, "connected")
            /\ ftps_instances' = [ftps_instances EXCEPT ![i].stable_connect_task = FALSE,
                                                        ![i].ftps_status = "connected"]
       ELSE /\ ftps_instances' = [ftps_instances EXCEPT ![i].stable_connect_task = FALSE]
            /\ UNCHANGED <<printer_ftps_status, last_status_write>>
    /\ UNCHANGED <<settings_id, ftps_built>>

\* An operation of the active printer's service fails on its connection:
\* _handle_client_connection_error.
wired_connection_error(i) ==
    /\ i = ftps_built
    /\ ftps_instances[i].client
    /\ wired_notify_status(i, "disconnected")
    /\ ftps_instances' = [ftps_instances EXCEPT ![i].client = FALSE,
                                                ![i].ftps_status = "disconnected"]
    /\ UNCHANGED <<settings_id, ftps_built>>

\* ServiceRegistry.reconfigure to printer q: settings replaced, services built.
wired_reconfigure(q) ==
    /\ q # settings_id
    /\ ftps_built <= MaxRebuilds
    /\ settings_id' = q
    /\ ftps_built' = ftps_built + 1
    /\ ftps_instances' = [ftps_instances EXCEPT ![ftps_built + 1] =
                             [NoInstance EXCEPT !.printer = q]]
    /\ UNCHANGED <<printer_ftps_status, last_status_write>>

InitWire ==
    /\ settings_id = "p1"
    /\ ftps_built = 1
    /\ ftps_instances = [i \in InstanceIds |->
                            IF i = 1 THEN [NoInstance EXCEPT !.printer = "p1"] ELSE NoInstance]
    /\ printer_ftps_status = [p \in Printers |-> "disconnected"]
    /\ last_status_write = [instance |-> 0, printer |-> "none"]

\* _mqtt_loop: the message stream ends (StopAsyncIteration) and the loop
\* leaves the session by "break"; the finally clause unsets the client.
session_stream_ends(p) ==
    /\ session[p] = "open"
    /\ session' = [session EXCEPT ![p] = "closed"]
    /\ UNCHANGED varsState

(***************************************************************************)
(* PART 22 - the extraction directory of the cached file                   *)
(*                                                                         *)
(* _extract_3mf unpacks the cached file into the directory next to it,     *)
(* named after the file without its suffix.  The directory is created with *)
(* exist_ok and never removed: it holds what the last extraction that ran  *)
(* put into it.  extract_dir is the version of the cached file that this   *)
(* extraction read, Absent while there is no directory with a Metadata     *)
(* folder.  _resolve_cached_bundle serves the directory whenever the       *)
(* cached file, its meta and the Metadata folder exist.                    *)
(***************************************************************************)
\* PrintJobService._extract_3mf: BadZipFile is raised when the archive is
\* opened, before anything is written to the directory.
_extract_3mf(dir, file, bundle) == IF bundle = "bad_zip" THEN dir ELSE file

\* _lookup_or_cache_remote_file returns; on the cached path the job goes on to
\* the extraction.
lookup_then_extract(storage_ok, bundle) ==
    /\ lookup_returns(storage_ok, bundle)
    /\ extract_dir' = IF jobs'[worker].outcome = "cached"
                      THEN _extract_3mf(extract_dir, cache.file, bundle)
                      ELSE extract_dir

\* write_meta returns; the job goes on to the extraction.
meta_then_extract(bundle) ==
    /\ meta_written(bundle)
    /\ extract_dir' = _extract_3mf(extract_dir, cache.file, bundle)

InitExtract == extract_dir = Absent

(***************************************************************************)
(* PART 23 - overlapping calls of upload_stream                            *)
(*                                                                         *)
(* The routes await upload_stream and cancel_upload on the event loop, and *)
(* nothing keeps a second upload_stream from beginning while the first is  *)
(* suspended; the transfer itself runs in an executor thread, which holds  *)
(* the cancel event it was started with.  Call c makes event c; the event  *)
(* cancel_upload makes when there is none is event -1.  The calls use      *)
(* overwrite=True, and a thread's end is taken together with the           *)
(* resumption of its call.                                                 *)
(***************************************************************************)
CallIds == 1..MaxCalls

NoCall ==
    [pc |-> "none", event |-> 0, sent |-> 0, generation |-> 0, result |-> "none",
     alone |-> FALSE, during |-> 0, cancel_seen |-> FALSE, cancel_accepted |-> FALSE]

InProgress(c) == upload_calls[c].pc \notin {"none", "returned"}

\* upload_stream up to its first await: the state is replaced by an active
\* "preparing" one without progress, and a new cancel event made.
stream_begins(c) ==
    /\ upload_calls[c].pc = "none"
    /\ \A b \in CallIds : b < c => upload_calls[b].pc # "none"
    /\ upload_status' = [active |-> TRUE, status |-> "preparing", sent |-> 0,
                         generation |-> upload_status.generation + 1]
    /\ _upload_cancel_event' = c
    /\ upload_calls' = [upload_calls EXCEPT
          ![c].pc = "ensure",
          ![c].alone = \A b \in CallIds : ~InProgress(b),
          ![c].during = IF \E d \in CallIds : upload_calls[d].pc = "transfer"
                        THEN CHOOSE d \in CallIds : upload_calls[d].pc = "transfer"
                        ELSE 0]
    /\ UNCHANGED <<events_set, _upload_cancel_requested, _upload_future>>

\* _ensure_connected returns: False without a connection, False when the
\* future of another upload is pending, else _start_upload_state and on to
\* _prepare_upload_stream.
stream_ensured(c, ok) ==
    /\ upload_calls[c].pc = "ensure"
    /\ IF ~ok
       THEN /\ upload_calls' = [upload_calls EXCEPT ![c].pc = "returned",
                                                    ![c].result = "false"]
            /\ UNCHANGED upload_status
       ELSE IF _upload_future # 0
       THEN /\ upload_calls' = [upload_calls EXCEPT ![c].pc = "returned",
                                                    ![c].result = "rejected"]
            /\ UNCHANGED upload_status
       ELSE /\ upload_calls' = [upload_calls EXCEPT
                                   ![c].pc = "prepare",
                                   ![c].generation = upload_status.generation + 1]
            /\ upload_status' = [active |-> TRUE, status |-> "preparing", sent |-> 0,
                                 generation |-> upload_status.generation + 1]
    /\ UNCHANGED <<_upload_cancel_event, events_set, _upload_cancel_requested,
                   _upload_future>>

\* _prepare_upload_stream returns: a cancel seen here ends the call, else the
\* first progress is reported and the transfer begins in the executor with the
\* event the attribute refers to.
stream_prepared(c) ==
    /\ upload_calls[c].pc = "prepare"
    /\ IF _upload_cancel_requested \/ _upload_cancel_event \in events_set
       THEN /\ _upload_cancel_requested' = FALSE
            /\ upload_status' = _finish_upload_state(upload_status, "cancelled")
            /\ upload_calls' = [upload_calls EXCEPT ![c].pc = "returned",
                                                    ![c].result = "UploadCancelledError"]
            /\ _upload_future' = 0
            /\ _upload_cancel_event' = 0
       ELSE /\ upload_status' = IF upload_status.active
                                THEN [_update_upload_state(upload_status) EXCEPT !.sent = 0]
                                ELSE upload_status
            /\ upload_calls' = [upload_calls EXCEPT ![c].pc = "transfer",
                                                    ![c].event = _upload_cancel_event]
            /\ _upload_future' = c
            /\ UNCHANGED <<_upload_cancel_event, _upload_cancel_requested>>
    /\ UNCHANGED events_set

\* The thread of call c has sent a chunk: _progress.
stream_progress(c) ==
    /\ upload_calls[c].pc = "transfer"
    /\ upload_calls[c].sent < UploadChunks
    /\ upload_calls' = [upload_calls EXCEPT ![c].sent = @ + 1]
    /\ upload_status' = IF upload_status.active
                        THEN [_update_upload_state(upload_status) EXCEPT
                                 !.sent = upload_calls[c].sent + 1]
                        ELSE upload_status
    /\ UNCHANGED <<_upload_cancel_event, events_set, _upload_cancel_requested,
                   _upload_future>>

\* upload_file_blocking ends in the thread of call c: done, stopped by the
\* event it holds, or failed; the call resumes and runs to its end.
stream_transferred(c, outcome) ==
    /\ upload_calls[c].pc = "transfer"
    /\ (outcome = "completed") => upload_calls[c].sent = UploadChunks
    /\ (outcome = "cancelled") => upload_calls[c].event \in events_set
    /\ upload_status' =
          _finish_upload_state(upload_status,
              CASE outcome = "completed" -> "completed"
                [] outcome = "cancelled" -> "cancelled"
                [] OTHER -> "error")
    /\ upload_calls' = [upload_calls EXCEPT
          ![c].pc = "returned",
          ![c].result = CASE outcome = "completed" -> "true"
                          [] outcome = "cancelled" -> "UploadCancelledError"
                          [] OTHER -> "false"]
    /\ _upload_future' = 0
    /\ _upload_cancel_event' = 0
    /\ UNCHANGED <<events_set, _upload_cancel_requested>>

\* FTPSService.cancel_upload; the calls in progress note that a cancel was
\* made, and whether it returned True with the state active.
cancel_request ==
    LET event == IF _upload_cancel_event = 0 THEN -1 ELSE _upload_cancel_event
        accepted == upload_status.active /\ event \notin events_set
    IN /\ IF ~upload_status.active
          THEN /\ _upload_cancel_requested' = TRUE
               /\ UNCHANGED <<upload_status, _upload_cancel_event, events_set>>
          ELSE /\ _upload_cancel_event' = event
               /\ events_set' = events_set \cup {event}
               /\ upload_status' = IF accepted THEN _mark_upload_cancelling(upload_status)
                                   ELSE upload_status
               /\ UNCHANGED _upload_cancel_requested
       /\ upload_calls' = [c \in CallIds |->
             IF InProgress(c)
             THEN [upload_calls[c] EXCEPT !.cancel_seen = TRUE,
                                          !.cancel_accepted = @ \/ accepted]
             ELSE upload_calls[c]]
       /\ UNCHANGED _upload_future

InitCalls ==
    /\ upload_status = [active |-> FALSE, status |-> "idle", sent |-> 0, generation |-> 0]
    /\ _upload_cancel_event = 0
    /\ events_set = {}
    /\ _upload_cancel_requested = FALSE
    /\ _upload_future = 0
    /\ upload_calls = [c \in CallIds |-> NoCall]

(***************************************************************************)
(* PART 24 - start, stop and the restart after a crash                     *)
(*                                                                         *)
(* MQTTService, ConnectionOrchestrator and PrinterCacheWatcher each run    *)
(* one loop task under monitor_task: when the task ends with an exception, *)
(* its done callback calls _handle_task_crash, which schedules start() as  *)
(* a task of its own.  The done callback and the scheduled start() run in  *)
(* later iterations of the event loop, so another task can call stop()     *)
(* before either.  stop() awaits the task it finds: a task that ended with *)
(* an exception makes the await, and so stop(), raise that exception.      *)
(* A task is "running", "cancelling" (cancelled, not yet ended),           *)
(* "crashed" (ended with an exception, callback not yet run), "reported"   *)
(* (callback run), "cancelled" or "finished".  start() and stop() called   *)
(* from outside do not overlap a stop() that is suspended.                 *)
(***************************************************************************)
Services == {"mqtt", "orchestrator", "presence"}
TaskIds == 1..MaxTasks

NoService ==
    [running |-> FALSE, task |-> 0, made |-> 0, status |-> [t \in TaskIds |-> "none"],
     restarts |-> 0, stopped |-> "never"]

\* start(): MQTTService and ConnectionOrchestrator return when the running
\* flag is set, PrinterCacheWatcher when the task attribute is.
service_start(kind, s) ==
    IF (IF kind = "presence" THEN s.task # 0 ELSE s.running) THEN s
    ELSE [s EXCEPT !.running = TRUE, !.task = s.made + 1, !.made = @ + 1,
                   !.status[s.made + 1] = "running"]

\* MQTTService._handle_task_crash, ConnectionOrchestrator._handle_task_crash:
\* the flag is cleared, the task attribute kept.
handle_task_crash_by_flag(s) ==
    IF ~s.running THEN s ELSE [s EXCEPT !.running = FALSE, !.restarts = @ + 1]

\* PrinterCacheWatcher._handle_task_crash: the task attribute is cleared, the
\* flag kept.
_handle_task_crash(s) ==
    IF ~s.running THEN s ELSE [s EXCEPT !.task = 0, !.restarts = @ + 1]

\* stop() after "await self._task" has ended: an exception of the task leaves
\* stop() before the attribute is cleared.
stop_resumes(s, status) ==
    IF status \in {"crashed", "reported"} THEN [s EXCEPT !.stopped = "raised"]
    ELSE [s EXCEPT !.task = 0, !.stopped = "returned"]

CanMake(k) == lifecycle[k].made < MaxTasks

\* start() is called: by the orchestrator's tick, the registry or the
\* presence service.
start_called(k) ==
    /\ lifecycle[k].stopped # "awaiting"
    /\ CanMake(k)
    /\ lifecycle' = [lifecycle EXCEPT
                        ![k] = [service_start(k, @) EXCEPT !.stopped = "never"]]

\* The loop task ends with an exception.
task_crashes(k) ==
    /\ \E t \in TaskIds :
          /\ lifecycle[k].status[t] = "running"
          /\ lifecycle' = [lifecycle EXCEPT ![k].status[t] = "crashed"]

\* monitor_task._callback of a task that ended with an exception.
crash_callback(k) ==
    /\ \E t \in TaskIds :
          /\ lifecycle[k].status[t] = "crashed"
          /\ lifecycle' = [lifecycle EXCEPT
                ![k] = [(IF k = "presence" THEN _handle_task_crash(@)
                         ELSE handle_task_crash_by_flag(@))
                        EXCEPT !.status[t] = "reported"]]

\* The start() that _handle_task_crash scheduled runs.
restart_runs(k) ==
    /\ lifecycle[k].restarts > 0
    /\ CanMake(k)
    /\ lifecycle' = [lifecycle EXCEPT
                        ![k] = [service_start(k, @) EXCEPT !.restarts = @ - 1]]

\* stop() up to its await, and to its end when the task has ended already or
\* there is none.
stop_called(k) ==
    LET s == [lifecycle[k] EXCEPT !.running = FALSE]
    IN /\ lifecycle[k].stopped # "awaiting"
       /\ lifecycle' = [lifecycle EXCEPT ![k] =
             IF s.task = 0 THEN [s EXCEPT !.stopped = "returned"]
             ELSE IF s.status[s.task] = "running"
             THEN [s EXCEPT !.status[s.task] = "cancelling", !.stopped = "awaiting"]
             ELSE stop_resumes(s, s.status[s.task])]

\* The cancelled task ends: cancelled, returned from its loop, or with an
\* exception raised while it was unwinding; its callback finds the flag
\* cleared, and stop() resumes.
cancelled_task_ends(k, how) ==
    /\ lifecycle[k].stopped = "awaiting"
    /\ lifecycle[k].status[lifecycle[k].task] = "cancelling"
    /\ lifecycle' = [lifecycle EXCEPT ![k] =
          stop_resumes([@ EXCEPT !.status[lifecycle[k].task] = how], how)]

InitLife == lifecycle = [k \in Services |-> NoService]

OnlyState == UNCHANGED <<varsFtps, varsSwitch, varsLive, varsSkip, varsPrep, varsSess, varsEvents, varsRtc, varsStable, varsUpload, varsCam, varsMerge, varsRetry, varsConfig, varsCopy, varsRemain, varsAdmin, varsHeld, varsQueue, varsWire, varsExtract, varsCalls, varsLife>>
OnlyFtps == UNCHANGED <<varsState, varsSwitch, varsLive, varsSkip, varsPrep, varsSess, varsEvents, varsRtc, varsStable, varsUpload, varsCam, varsMerge, varsRetry, varsConfig, varsCopy, varsRemain, varsAdmin, varsHeld, varsQueue, varsWire, varsExtract, varsCalls, varsLife>>
OnlySwitch == UNCHANGED <<varsState, varsFtps, varsLive, varsSkip, varsPrep, varsSess, varsEvents, varsRtc, varsStable, varsUpload, varsCam, varsMerge, varsRetry, varsConfig, varsCopy, varsRemain, varsAdmin, varsHeld, varsQueue, varsWire, varsExtract, varsCalls, varsLife>>
OnlyLive == UNCHANGED <<varsState, varsFtps, varsSwitch, varsSkip, varsPrep, varsSess, varsEvents, varsRtc, varsStable, varsUpload, varsCam, varsMerge, varsRetry, varsConfig, varsCopy, varsRemain, varsAdmin, varsHeld, varsQueue, varsWire, varsExtract, varsCalls, varsLife>>
OnlySkip == UNCHANGED <<varsState, varsFtps, varsSwitch, varsLive, varsPrep, varsSess, varsEvents, varsRtc, varsStable, varsUpload, varsCam, varsMerge, varsRetry, varsConfig, varsCopy, varsRemain, varsAdmin, varsHeld, varsQueue, varsWire, varsExtract, varsCalls, varsLife>>
OnlyPrep == UNCHANGED <<varsState, varsFtps, varsSwitch, varsLive, varsSkip, varsSess, varsEvents, varsRtc, varsStable, varsUpload, varsCam, varsMerge, varsRetry, varsConfig, varsCopy, varsRemain, varsAdmin, varsHeld, varsQueue, varsWire, varsExtract, varsCalls, varsLife>>
OnlySess == UNCHANGED <<varsFtps, varsSwitch, varsLive, varsSkip, varsPrep, varsEvents, varsRtc, varsStable, varsUpload, varsCam, varsMerge, varsRetry, varsConfig, varsCopy, varsRemain, varsAdmin, varsHeld, varsQueue, varsWire, varsExtract, varsCalls, varsLife>>
OnlyEvents == UNCHANGED <<varsState, varsFtps, varsSwitch, varsLive, varsSkip, varsPrep, varsSess, varsRtc, varsStable, varsUpload, varsCam, varsMerge, varsRetry, varsConfig, varsCopy, varsRemain, varsAdmin, varsHeld, varsQueue, varsWire, varsExtract, varsCalls, varsLife>>
OnlyRtc == UNCHANGED <<varsState, varsFtps, varsSwitch, varsLive, varsSkip, varsPrep, varsSess, varsEvents, varsStable, varsUpload, varsCam, varsMerge, varsRetry, varsConfig, varsCopy, varsRemain, varsAdmin, varsHeld, varsQueue, varsWire, varsExtract, varsCalls, varsLife>>
OnlyStable == UNCHANGED <<varsState, varsFtps, varsSwitch, varsLive, varsSkip, varsPrep, varsSess, varsEvents, varsRtc, varsUpload, varsCam, varsMerge, varsRetry, varsConfig, varsCopy, varsRemain, varsAdmin, varsHeld, varsQueue, varsWire, varsExtract, varsCalls, varsLife>>
OnlyUpload == UNCHANGED <<varsState, varsFtps, varsSwitch, varsLive, varsSkip, varsPrep, varsSess, varsEvents, varsRtc, varsStable, varsCam, varsMerge, varsRetry, varsConfig, varsCopy, varsRemain, varsAdmin, varsHeld, varsQueue, varsWire, varsExtract, varsCalls, varsLife>>
OnlyCam == UNCHANGED <<varsState, varsFtps, varsSwitch, varsLive, varsSkip, varsPrep, varsSess, varsEvents, varsRtc, varsStable, varsUpload, varsMerge, varsRetry, varsConfig, varsCopy, varsRemain, varsAdmin, varsHeld, varsQueue, varsWire, varsExtract, varsCalls, varsLife>>
OnlyMerge == UNCHANGED <<varsState, varsFtps, varsSwitch, varsLive, varsSkip, varsPrep, varsSess, varsEvents, varsRtc, varsStable, varsUpload, varsCam, varsRetry, varsConfig, varsCopy, varsRemain, varsAdmin, varsHeld, varsQueue, varsWire, varsExtract, varsCalls, varsLife>>
OnlyRetry == UNCHANGED <<varsState, varsFtps, varsSwitch, varsLive, varsSkip, varsPrep, varsSess, varsEvents, varsRtc, varsStable, varsUpload, varsCam, varsMerge, varsConfig, varsCopy, varsRemain, varsAdmin, varsHeld, varsQueue, varsWire, varsExtract, varsCalls, varsLife>>
OnlyConfig == UNCHANGED <<varsState, varsFtps, varsSwitch, varsLive, varsSkip, varsPrep, varsSess, varsEvents, varsRtc, varsStable, varsUpload, varsCam, varsMerge, varsRetry, varsCopy, varsRemain, varsAdmin, varsHeld, varsQueue, varsWire, varsExtract, varsCalls, varsLife>>
OnlyCopy == UNCHANGED <<varsState, varsFtps, varsSwitch, varsLive, varsSkip, varsPrep, varsSess, varsEvents, varsRtc, varsStable, varsUpload, varsCam, varsMerge, varsRetry, varsConfig, varsRemain, varsAdmin, varsHeld, varsQueue, varsWire, varsExtract, varsCalls, varsLife>>
OnlyRemain == UNCHANGED <<varsState, varsFtps, varsSwitch, varsLive, varsSkip, varsPrep, varsSess, varsEvents, varsRtc, varsStable, varsUpload, varsCam, varsMerge, varsRetry, varsConfig, varsCopy, varsAdmin, varsHeld, varsQueue, varsWire, varsExtract, varsCalls, varsLife>>
OnlyAdmin == UNCHANGED <<varsState, varsFtps, varsSwitch, varsLive, varsSkip, varsPrep, varsSess, varsEvents, varsRtc, varsStable, varsUpload, varsCam, varsMerge, varsRetry, varsConfig, varsCopy, varsRemain, varsHeld, varsQueue, varsWire, varsExtract, varsCalls, varsLife>>
OnlyHeld == UNCHANGED <<varsState, varsFtps, varsSwitch, varsLive, varsSkip, varsPrep, varsSess, varsEvents, varsRtc, varsStable, varsUpload, varsCam, varsMerge, varsRetry, varsConfig, varsCopy, varsRemain, varsAdmin, varsQueue, varsWire, varsExtract, varsCalls, varsLife>>
OnlyStateHeld == UNCHANGED <<varsFtps, varsSwitch, varsLive, varsSkip, varsPrep, varsSess, varsEvents, varsRtc, varsStable, varsUpload, varsCam, varsMerge, varsRetry, varsConfig, varsCopy, varsRemain, varsAdmin, varsQueue, varsWire, varsExtract, varsCalls, varsLife>>
OnlyQueue == UNCHANGED <<varsState, varsFtps, varsSwitch, varsLive, varsSkip, varsPrep, varsSess, varsEvents, varsRtc, varsStable, varsUpload, varsCam, varsMerge, varsRetry, varsConfig, varsCopy, varsRemain, varsAdmin, varsHeld, varsWire, varsExtract, varsCalls, varsLife>>
OnlyWire == UNCHANGED <<varsState, varsFtps, varsSwitch, varsLive, varsSkip, varsPrep, varsSess, varsEvents, varsRtc, varsStable, varsUpload, varsCam, varsMerge, varsRetry, varsConfig, varsCopy, varsRemain, varsAdmin, varsHeld, varsQueue, varsExtract, varsCalls, varsLife>>
OnlyExtract == UNCHANGED <<varsState, varsFtps, varsSwitch, varsLive, varsSkip, varsPrep, varsSess, varsEvents, varsRtc, varsStable, varsUpload, varsCam, varsMerge, varsRetry, varsConfig, varsCopy, varsRemain, varsAdmin, varsHeld, varsQueue, varsWire, varsCalls, varsLife>>
OnlyPrepExtract == UNCHANGED <<varsState, varsFtps, varsSwitch, varsLive, varsSkip, varsSess, varsEvents, varsRtc, varsStable, varsUpload, varsCam, varsMerge, varsRetry, varsConfig, varsCopy, varsRemain, varsAdmin, varsHeld, varsQueue, varsWire, varsCalls, varsLife>>
OnlyCalls == UNCHANGED <<varsState, varsFtps, varsSwitch, varsLive, varsSkip, varsPrep, varsSess, varsEvents, varsRtc, varsStable, varsUpload, varsCam, varsMerge, varsRetry, varsConfig, varsCopy, varsRemain, varsAdmin, varsHeld, varsQueue, varsWire, varsExtract, varsLife>>
OnlyLife == UNCHANGED <<varsState, varsFtps, varsSwitch, varsLive, varsSkip, varsPrep, varsSess, varsEvents, varsRtc, varsStable, varsUpload, varsCam, varsMerge, varsRetry, varsConfig, varsCopy, varsRemain, varsAdmin, varsHeld, varsQueue, varsWire, varsExtract, varsCalls>>

\* The store with no SSE client: every writer operation with its full inputs.
StoreOpen == Applied < MaxUpdates

NextStore ==
    \/ \E p \in Printers, payload \in PrintPayloads, now \in ServerTimes :
          StoreOpen /\ update_print_data(p, payload, now) /\ OnlyState
    \/ \E p \in Printers, record \in LastSents \cup {NoLastSent}, now \in ServerTimes :
          StoreOpen /\ set_last_sent_project_file(p, record, now) /\ OnlyState
    \/ \E p \in Printers, online \in BOOLEAN, now \in ServerTimes :
          StoreOpen /\ set_printer_online(p, online, now) /\ OnlyState
    \/ \E p \in Printers, status \in FtpsStatuses, now \in ServerTimes :
          StoreOpen /\ set_ftps_status(p, status, now) /\ OnlyState
    \/ \E p \in Printers, status \in CameraStatuses, now \in ServerTimes :
          StoreOpen /\ set_camera_status(p, status, now) /\ OnlyState
    \/ \E p \in Printers, frame \in Frames :
          StoreOpen /\ update_camera_frame(p, frame) /\ OnlyState

\* The store with SSE clients: a print that finishes, was sent from this server,
\* and a printer that goes on and off line.
StreamPayloads ==
    {[gcode_state |-> "FINISHED", gcode_file |-> <<"sd", "cube">>, ams |-> NoAms],
     [gcode_state |-> "RUNNING", gcode_file |-> NoPath, ams |-> <<"ams0">>]}

StreamOpen == Applied < MaxStreamUpdates

NextStream ==
    \/ \E p \in Printers, payload \in StreamPayloads, now \in ServerTimes :
          StreamOpen /\ update_print_data(p, payload, now) /\ OnlyState
    \/ \E p \in Printers, now \in ServerTimes :
          /\ StreamOpen
          /\ set_last_sent_project_file(p, LastSentRecord(<<"cube">>, "plate_1"), now)
          /\ OnlyState
    \/ \E p \in Printers, online \in BOOLEAN, now \in ServerTimes :
          StreamOpen /\ set_printer_online(p, online, now) /\ OnlyState
    \/ \E p \in Printers, status \in FtpsStatuses, now \in ServerTimes :
          StreamOpen /\ set_ftps_status(p, status, now) /\ OnlyState
    \/ \E p \in Printers, status \in CameraStatuses, now \in ServerTimes :
          StreamOpen /\ set_camera_status(p, status, now) /\ OnlyState
    \/ \E p \in Printers, frame \in Frames :
          StreamOpen /\ update_camera_frame(p, frame) /\ OnlyState
    \/ \E s \in SubIds, p \in Printers, now \in ServerTimes : stream_state(s, p, now) /\ OnlyState
    \/ \E s \in SubIds : event_stream(s) /\ OnlyState
    \/ \E s \in SubIds : client_disconnect(s) /\ OnlyState

NextFtps ==
    \/ mqtt_report /\ OnlyFtps
    \/ mqtt_silent /\ OnlyFtps
    \/ tick_pause /\ OnlyFtps
    \/ tick_resume /\ OnlyFtps
    \/ \E ok \in BOOLEAN : tick_ftps_started(ok) /\ OnlyFtps
    \/ \E i \in LoopIds : loop_wake(i) /\ OnlyFtps
    \/ \E i \in LoopIds, ok \in BOOLEAN : loop_connected(i, ok) /\ OnlyFtps
    \/ check_expires /\ OnlyFtps
    \/ list_files /\ OnlyFtps
    \/ \E ok \in BOOLEAN : pwd_returns(ok) /\ OnlyFtps
    \/ \E ok \in BOOLEAN : op_connected(ok) /\ OnlyFtps
    \/ \E ok \in BOOLEAN : list_returns(ok) /\ OnlyFtps

NextSwitch ==
    \/ startup /\ OnlySwitch
    \/ tick_presence_start /\ OnlySwitch
    \/ _tick /\ OnlySwitch
    \/ mqtt_session_opens /\ OnlySwitch
    \/ \E q \in Printers : reconfigure(q) /\ OnlySwitch
    \/ \E p \in Printers : watcher_loop(p) /\ OnlySwitch
    \/ \E p \in Printers, ok \in BOOLEAN : watcher_connected(p, ok) /\ OnlySwitch
    \/ \E p \in Printers : watcher_check(p) /\ OnlySwitch
    \/ \E p \in Printers : watcher_message(p) /\ OnlySwitch
    \/ \E p \in Printers : watcher_drops(p) /\ OnlySwitch

NextLive ==
    \/ timed_tick /\ OnlyLive
    \/ \E ok \in BOOLEAN : mqtt_connects(ok) /\ OnlyLive
    \/ mqtt_message /\ OnlyLive
    \/ \E ok \in BOOLEAN : mqtt_timeout(ok) /\ OnlyLive
    \/ mqtt_error /\ OnlyLive
    \/ mqtt_retry /\ OnlyLive
    \/ advance /\ OnlyLive

NextWatch ==
    \/ timed_tick /\ OnlyLive
    \/ \E ok \in BOOLEAN : presence_connects(ok) /\ OnlyLive
    \/ presence_message /\ OnlyLive
    \/ \E ok \in BOOLEAN : presence_timeout(ok) /\ OnlyLive
    \/ presence_retry /\ OnlyLive
    \/ advance /\ OnlyLive

NextSkip ==
    \/ \E o \in ObjectLists, l \in BOOLEAN, c \in BOOLEAN : skip_objects(o, l, c) /\ OnlySkip
    \/ \E t \in PlateSizes, c \in BOOLEAN : report_print(t, c) /\ OnlySkip
    \/ report_skipped /\ OnlySkip

NextPrep ==
    \/ \E f \in RemoteFiles, t \in BOOLEAN : prepare_file(f, t) /\ OnlyPrep
    \/ \E t \in BOOLEAN : cancel(t) /\ OnlyPrep
    \/ _worker /\ OnlyPrep
    \/ job_starts /\ OnlyPrep
    \/ connection_check_fails /\ OnlyPrep
    \/ close_returns /\ OnlyPrep
    \/ \E ok \in BOOLEAN, b \in Bundles : lookup_returns(ok, b) /\ OnlyPrep
    \/ \E ok \in BOOLEAN : open_returns(ok) /\ OnlyPrep
    \/ size_returns /\ OnlyPrep
    \/ stream_chunk /\ OnlyPrep
    \/ stream_ends /\ OnlyPrep
    \/ stream_fails /\ OnlyPrep
    \/ \E b \in Bundles : meta_written(b) /\ OnlyPrep

\* The cache over changing listings: requests replace one another, the
\* connection holds.
NextCache ==
    \/ \E f \in RemoteFiles, t \in BOOLEAN : prepare_file(f, t) /\ OnlyPrep
    \/ _worker /\ OnlyPrep
    \/ job_starts /\ OnlyPrep
    \/ \E ok \in BOOLEAN, b \in Bundles : lookup_returns(ok, b) /\ OnlyPrep
    \/ \E ok \in BOOLEAN : open_returns(ok) /\ OnlyPrep
    \/ size_returns /\ OnlyPrep
    \/ stream_chunk /\ OnlyPrep
    \/ stream_ends /\ OnlyPrep
    \/ stream_fails /\ OnlyPrep
    \/ \E b \in Bundles : meta_written(b) /\ OnlyPrep
    \/ \E f \in RemoteFiles, z \in Stamps : listing_changes(f, z) /\ OnlyPrep

\* One SSE client of p1 that reads slowly, or not at all, while p1 goes on and
\* off line: every update is a diff for its queue.
FloodOpen == Applied < MaxFlood

NextFlood ==
    \/ Applied = 0 /\ stream_state("s1", "p1", SnapshotInstant) /\ OnlyState
    \/ /\ FloodOpen
       /\ set_printer_online("p1", ~state["p1"].printer_online, "later")
       /\ OnlyState
    \/ event_stream("s1") /\ OnlyState

\* The stores as their sessions write them.
NextSess ==
    \/ \E p \in Printers, now \in ServerTimes :
          StoreOpen /\ session_opens(p, now) /\ OnlySess
    \/ \E p \in Printers, payload \in StreamPayloads, now \in ServerTimes :
          StoreOpen /\ session_report(p, payload, now) /\ OnlySess
    \/ \E p \in Printers, now \in ServerTimes :
          StoreOpen /\ session_lost(p, now) /\ OnlySess
    \/ \E p \in Printers : session_stopped(p) /\ OnlySess
    \/ \E p \in Printers : remove_printer(p) /\ OnlySess

NextEvents ==
    \/ \E p \in Printers, st \in EventStates :
          /\ _handle_state_update(p, st)
          /\ TotalEvents' <= MaxEvents
          /\ OnlyEvents
    \/ \E p \in Printers : clear_events(p) /\ OnlyEvents

NextRtc ==
    \/ claim /\ OnlyRtc
    \/ \E sid \in SessionIds : keepalive(sid) /\ OnlyRtc
    \/ \E sid \in SessionIds : release(sid) /\ OnlyRtc
    \/ \E d \in Advances : time_passes(d) /\ OnlyRtc

NextStable ==
    \/ \E ok \in BOOLEAN : connect(ok) /\ OnlyStable
    \/ _set_connected_after_delay /\ OnlyStable
    \/ _handle_client_connection_error /\ OnlyStable
    \/ \E connect_ok, list_ok \in BOOLEAN :
          list_files_with_navigation(connect_ok, list_ok) /\ OnlyStable
    \/ stable_time_passes /\ OnlyStable

NextUpload ==
    \/ \E overwrite \in BOOLEAN : upload_stream(overwrite) /\ OnlyUpload
    \/ \E ok \in BOOLEAN : upload_ensure_returns(ok) /\ OnlyUpload
    \/ \E answer \in {"exists", "absent", "error"} :
          upload_file_exists_returns(answer) /\ OnlyUpload
    \/ \E ok \in BOOLEAN : upload_prepare_returns(ok) /\ OnlyUpload
    \/ \E outcome \in {"completed", "cancelled", "failed"} :
          upload_transfer_returns(outcome) /\ OnlyUpload
    \/ cancel_upload /\ OnlyUpload
    \/ upload_done /\ OnlyUpload

NextCam ==
    \/ engine_start /\ OnlyCam
    \/ engine_stop /\ OnlyCam
    \/ \E paused \in BOOLEAN : engine_set_reconnect_paused(paused) /\ OnlyCam
    \/ \E ok \in BOOLEAN : camera_connects(ok) /\ OnlyCam
    \/ read_times_out /\ OnlyCam
    \/ \E complete, throttled \in BOOLEAN :
          /\ read_returns(complete, throttled)
          /\ cam_engine' # cam_engine
          /\ OnlyCam
    \/ stream_closes /\ OnlyCam
    \/ pause_wait_ends /\ OnlyCam
    \/ retry_sleep_ends /\ OnlyCam

NextShutdown ==
    \/ startup /\ OnlySwitch
    \/ tick_presence_start /\ OnlySwitch
    \/ _tick /\ OnlySwitch
    \/ mqtt_session_opens /\ OnlySwitch
    \/ \E q \in Printers : reconfigure(q) /\ OnlySwitch
    \/ \E p \in Printers : watcher_loop(p) /\ OnlySwitch
    \/ \E p \in Printers, ok \in BOOLEAN : watcher_connected(p, ok) /\ OnlySwitch
    \/ \E p \in Printers : watcher_check(p) /\ OnlySwitch
    \/ \E p \in Printers : watcher_message(p) /\ OnlySwitch
    \/ \E p \in Printers : watcher_drops(p) /\ OnlySwitch
    \/ shutdown /\ OnlySwitch

NextSse ==
    \/ \E p \in Printers, payload \in StreamPayloads, now \in ServerTimes :
          StreamOpen /\ update_print_data(p, payload, now) /\ OnlyState
    \/ \E s \in SubIds, p \in Printers, now \in ServerTimes : stream_state(s, p, now) /\ OnlyState
    \/ \E s \in SubIds, p \in Printers, now \in ServerTimes :
          stream_state_never_started(s, p, now) /\ OnlyState
    \/ \E s \in SubIds : event_stream(s) /\ OnlyState
    \/ \E s \in SubIds : client_disconnect(s) /\ OnlyState

NextMerge ==
    \E payload \in JsonPayloads : merge_payload(payload) /\ OnlyMerge

NextRetry ==
    \/ \E l \in RetryLoops, u \in {-1, 0, 1} : retry_fails(l, u) /\ OnlyRetry
    \/ \E l \in RetryLoops : retry_succeeds(l) /\ OnlyRetry

NextConfig ==
    \/ \E r \in DeleteRequests, p \in PrinterIds : delete_printer_lists(r, p) /\ OnlyConfig
    \/ \E r \in DeleteRequests : delete_printer_removes(r) /\ OnlyConfig

NextCopy ==
    \/ \E r \in Readers : get_state(r) /\ OnlyCopy
    \/ \E r \in Readers : get_master_data(r) /\ OnlyCopy
    \/ \E r \in Readers, depth \in {1, 2}, text \in Texts :
           reader_mutates(r, depth, text) /\ OnlyCopy
    \/ \E which \in {"state", "master_data"}, depth \in {1, 2}, text \in Texts :
           writer_updates(which, depth, text) /\ OnlyCopy

NextRemain ==
    \E value \in RemainingValues, now \in Clock : parse_print(value, now) /\ OnlyRemain

NextAdmin ==
    \/ \E ip \in Ips, token_ok \in BOOLEAN : enforce_admin(ip, token_ok) /\ OnlyAdmin
    \/ admin_time_passes /\ OnlyAdmin

NextHeld ==
    \/ \E p \in Printers, payload \in StreamPayloads, now \in ServerTimes :
          /\ StreamOpen
          /\ update_print_data(p, payload, now)
          /\ held_after_notify(p, now)
          /\ OnlyStateHeld
    \/ \E p \in Printers, status \in FtpsStatuses, now \in ServerTimes :
          /\ StreamOpen
          /\ set_ftps_status(p, status, now)
          /\ held_after_notify(p, now)
          /\ OnlyStateHeld
    \/ \E p \in Printers, frame \in Frames :
          StreamOpen /\ update_camera_frame(p, frame) /\ UNCHANGED client_state /\ OnlyStateHeld
    \/ \E s \in SubIds, p \in Printers, now \in ServerTimes :
          stream_state(s, p, now) /\ held_after_seed(s, p) /\ OnlyStateHeld
    \/ \E s \in SubIds : event_stream(s) /\ UNCHANGED client_state /\ OnlyStateHeld
    \/ \E s \in SubIds : client_disconnect(s) /\ UNCHANGED client_state /\ OnlyStateHeld

\* The steps the event loop takes by itself.
QueueLoopSteps ==
    \/ queue_worker_takes
    \/ queue_task_cancelled
    \/ shutdown_gathered
    \/ queue_stop
    \/ queue_stop_returns

NextQueue ==
    \/ queue_submit /\ OnlyQueue
    \/ job_cancel /\ OnlyQueue
    \/ queue_task_ends /\ OnlyQueue
    \/ job_service_shutdown /\ OnlyQueue
    \/ queue_worker_takes /\ OnlyQueue
    \/ queue_task_cancelled /\ OnlyQueue
    \/ shutdown_gathered /\ OnlyQueue
    \/ queue_stop /\ OnlyQueue
    \/ queue_stop_returns /\ OnlyQueue

NextWire ==
    \/ \E i \in InstanceIds : wired_connect(i) /\ OnlyWire
    \/ \E i \in InstanceIds : wired_set_connected_after_delay(i) /\ OnlyWire
    \/ \E i \in InstanceIds : wired_connection_error(i) /\ OnlyWire
    \/ \E q \in Printers : wired_reconfigure(q) /\ OnlyWire

\* The MQTT service of the active printer, the watchers of the other
\* printers, and what ends their sessions.
NextMqtt ==
    \/ \E p \in Printers, now \in ServerTimes :
          StoreOpen /\ session_opens(p, now) /\ OnlySess
    \/ \E p \in Printers, payload \in StreamPayloads, now \in ServerTimes :
          StoreOpen /\ session_report(p, payload, now) /\ OnlySess
    \/ \E p \in Printers, now \in ServerTimes :
          StoreOpen /\ session_lost(p, now) /\ OnlySess
    \/ \E p \in Printers : session_stopped(p) /\ OnlySess
    \/ session_stream_ends(ConfiguredPrinter) /\ OnlySess

\* The cache and its extraction directory over changing listings, with
\* requests that replace or cancel one another.
NextExtract ==
    \/ \E f \in RemoteFiles, t \in BOOLEAN :
          prepare_file(f, t) /\ UNCHANGED extract_dir /\ OnlyPrepExtract
    \/ \E t \in BOOLEAN : cancel(t) /\ UNCHANGED extract_dir /\ OnlyPrepExtract
    \/ _worker /\ UNCHANGED extract_dir /\ OnlyPrepExtract
    \/ job_starts /\ UNCHANGED extract_dir /\ OnlyPrepExtract
    \/ \E ok \in BOOLEAN, b \in Bundles : lookup_then_extract(ok, b) /\ OnlyPrepExtract
    \/ \E ok \in BOOLEAN : open_returns(ok) /\ UNCHANGED extract_dir /\ OnlyPrepExtract
    \/ size_returns /\ UNCHANGED extract_dir /\ OnlyPrepExtract
    \/ stream_chunk /\ UNCHANGED extract_dir /\ OnlyPrepExtract
    \/ stream_ends /\ UNCHANGED extract_dir /\ OnlyPrepExtract
    \/ stream_fails /\ UNCHANGED extract_dir /\ OnlyPrepExtract
    \/ \E b \in Bundles : meta_then_extract(b) /\ OnlyPrepExtract
    \/ \E f \in RemoteFiles, z \in Stamps :
          listing_changes(f, z) /\ UNCHANGED extract_dir /\ OnlyPrepExtract

\* Uploads and cancels in any order.
NextCalls ==
    \/ \E c \in CallIds : stream_begins(c) /\ OnlyCalls
    \/ \E c \in CallIds, ok \in BOOLEAN : stream_ensured(c, ok) /\ OnlyCalls
    \/ \E c \in CallIds : stream_prepared(c) /\ OnlyCalls
    \/ \E c \in CallIds : stream_progress(c) /\ OnlyCalls
    \/ \E c \in CallIds, outcome \in {"completed", "cancelled", "failed"} :
          stream_transferred(c, outcome) /\ OnlyCalls
    \/ cancel_request /\ OnlyCalls

\* The three services, started, stopped and crashing in any order.
NextLife ==
    \/ \E k \in Services : start_called(k) /\ OnlyLife
    \/ \E k \in Services : task_crashes(k) /\ OnlyLife
    \/ \E k \in Services : crash_callback(k) /\ OnlyLife
    \/ \E k \in Services : restart_runs(k) /\ OnlyLife
    \/ \E k \in Services : stop_called(k) /\ OnlyLife
    \/ \E k \in Services, how \in {"cancelled", "finished", "reported"} :
          cancelled_task_ends(k, how) /\ OnlyLife

InitAll == InitState /\ InitFtps /\ InitSwitch /\ InitLive /\ InitSkip /\ InitPrep /\ InitSess /\ InitEvents /\ InitRtc /\ InitStable /\ InitUpload /\ InitCam /\ InitMerge /\ InitRetry /\ InitConfig /\ InitCopy /\ InitRemain /\ InitAdmin /\ InitHeld /\ InitQueue /\ InitWire /\ InitExtract /\ InitCalls /\ InitLife
SpecPrep == InitAll /\ [][NextPrep]_vars
SpecCache == InitAll /\ [][NextCache]_vars
SpecSess == InitAll /\ [][NextSess]_vars
SpecFlood == InitAll /\ [][NextFlood]_vars
SpecLife == InitAll /\ [][NextLife]_vars
SpecCalls == InitAll /\ [][NextCalls]_vars
SpecExtract == InitAll /\ [][NextExtract]_vars
SpecMqtt == InitAll /\ [][NextMqtt]_vars
SpecWire == InitAll /\ [][NextWire]_vars
SpecQueue == InitAll /\ [][NextQueue]_vars /\ WF_vars(QueueLoopSteps /\ OnlyQueue) /\ WF_vars(queue_task_ends /\ OnlyQueue)
SpecHeld == InitAll /\ [][NextHeld]_vars
SpecAdmin == InitAll /\ [][NextAdmin]_vars
SpecRemain == InitAll /\ [][NextRemain]_vars
SpecCopy == InitAll /\ [][NextCopy]_vars
SpecConfig == InitAll /\ [][NextConfig]_vars
SpecRetry == InitAll /\ [][NextRetry]_vars
SpecMerge == InitAll /\ [][NextMerge]_vars
SpecSse == InitAll /\ [][NextSse]_vars
SpecShutdown == InitAll /\ [][NextShutdown]_vars
SpecCam == InitAll /\ [][NextCam]_vars
SpecUpload == InitAll /\ [][NextUpload]_vars
SpecStable == InitAll /\ [][NextStable]_vars
SpecRtc == InitAll /\ [][NextRtc]_vars
SpecEvents == InitAll /\ [][NextEvents]_vars
SpecLive == InitAll /\ [][NextLive]_vars
SpecWatch == InitAll /\ [][NextWatch]_vars
SpecSkip == InitAll /\ [][NextSkip]_vars
SpecSwitch == InitAll /\ [][NextSwitch]_vars
SpecFtps == InitAll /\ [][NextFtps]_vars

SpecStore == InitAll /\ [][NextStore]_vars
SpecStream == InitAll /\ [][NextStream]_vars

(***************************************************************************)
(* Claims about the store and the stream                                   *)
(***************************************************************************)
\* C1: in every reachable state of every printer, print_again.enabled is true
\* only if printer_online is true, gcode_state is FINISH or FAILED and the
\* basename of last_sent_project_file.file equals the basename of print.file.
\* set_printer_online does not re-derive print_again, so the invariant is
\* violated by taking a printer offline while the button is enabled.
C1_EnabledImpliesOnlineFinishedSameFile ==
    \A p \in Printers :
        state[p].print_again.enabled =>
            /\ state[p].printer_online
            /\ state[p].gcode_state \in {"FINISH", "FAILED"}
            /\ extract_filename(state[p].last_sent_project_file.file) # None
            /\ extract_filename(state[p].last_sent_project_file.file)
                   = extract_filename(state[p].file)

\* The events a subscriber's connection has sent and will send, in order.
IsEvent(item) == item # Sentinel
Stream(s) == sub[s].received \o SelectSeq(sub[s].queue, IsEvent)

\* C8: for each printer, the version ids of the events a subscriber receives
\* (its seeding snapshot, then every queued snapshot or diff) are strictly
\* increasing in the order of receipt.
C8_VersionsStrictlyIncreasing ==
    \A s \in SubIds : \A i, j \in DOMAIN Stream(s) :
        (i < j /\ Stream(s)[i].printer_id = Stream(s)[j].printer_id)
            => Stream(s)[i].id < Stream(s)[j].id

\* C8 witness: a subscriber has received its snapshot and two diffs, and another
\* client's build_snapshot took a version in between.
C8_Witness ==
    \E s \in SubIds :
        /\ Len(sub[s].received) >= 3
        /\ sub[s].received[3].id > sub[s].received[2].id + 1

\* C9: the events a subscriber receives for one printer are in the order in
\* which the updates were applied to the store: the diff of an earlier update
\* never follows the diff of a later one.
C9_DiffsInUpdateOrder ==
    \A s \in SubIds : \A i, j \in DOMAIN Stream(s) :
        (i < j /\ Stream(s)[i].printer_id = Stream(s)[j].printer_id)
            => Stream(s)[i].seq < Stream(s)[j].seq

\* C9 witness: a subscriber has received the diffs of two successive updates of
\* its printer.
C9_Witness ==
    \E s \in SubIds :
        /\ Len(sub[s].received) >= 3
        /\ sub[s].received[2].event = "diff"
        /\ sub[s].received[3].event = "diff"
        /\ sub[s].received[3].seq = sub[s].received[2].seq + 1

(***************************************************************************)
(* Claims about the orchestrator's gate on FTPS and camera                 *)
(***************************************************************************)
\* C3: while reconnect-paused is set on the FTPS service, the service begins no
\* new connection attempt, from a reconnect loop started earlier or from any
\* other path.  _ensure_connected calls _connect_internal() after a failed
\* pwd() without looking at the flag, and a reconnect loop that is no longer
\* the tracked task is not cancelled by the pause.
C3_NoAttemptBeginsWhilePaused == ~paused_attempt

\* Somebody is connecting, or a reconnect loop is running.
AttemptUnderWay ==
    \/ ftps.lock \in {"start", "op"} \cup LoopIds
    \/ \E i \in LoopIds : loop[i] # "none"

\* C4: once a tick has seen MQTT live, FTPS and camera are started with their
\* pause flags cleared and an FTPS service that is not connected is trying to
\* connect.  After a pause the flag is cleared but nothing restarts the loop
\* that the pause cancelled.
C4_LiveTickStartsAndConnects ==
    (orch.mqtt_online /\ orch.pc = "idle") =>
        /\ ftps.started /\ ~ftps.reconnect_paused
        /\ camera.started /\ ~camera.reconnect_paused
        /\ (client_connected(ftps) \/ AttemptUnderWay)

(***************************************************************************)
(* Claims about switching the active printer                               *)
(***************************************************************************)
Running(g) ==
    \/ services[g].mqtt # "stopped"
    \/ services[g].ftps \/ services[g].camera \/ services[g].relay

\* C2: when a service of the newly active printer has been started, every
\* service of the previously active printer - MQTT session, FTPS client and
\* reconnect loop, camera engine and relay - has stopped.  _stop_services only
\* pauses FTPS and camera; nobody calls their stop().
C2_OldServicesStoppedBeforeNewStart ==
    Running(generation) => \A g \in Gens : g # generation => ~Running(g)

Paused == silence.paused_at > 0

C6_SilentSessionClosedAfterTwoTimeouts ==
    /\ mqtt_service.task = "session" => mqtt_service.timeouts < 2
    /\ cache_watcher.task = "session" => cache_watcher.timeouts < 2

(***************************************************************************)
(* Claims about skip-objects                                               *)
(***************************************************************************)
\* C10: a skip-objects command is published only if the cached bundle matches
\* the remote listing, the plate has at most 64 objects and at least one
\* object of the plate remains un-skipped after the requested ids.
C10_PublishedOnlyWhenChecksPass ==
    sent.published =>
        /\ sent.matched
        /\ sent.total <= MAX_SKIP_OBJECTS
        /\ (1..sent.total) \ (sent.skipped \cup sent.targets) # {}

(***************************************************************************)
(* Claims about the prepare jobs                                           *)
(***************************************************************************)
JobIds == 1..Len(jobs)
Quiescent == worker = 0 /\ prepare_queue = <<>>

\* C11: when prepare_file(p, f2) is called while an earlier prepare job of p
\* is queued or running, the earlier job is cancelled and takes no further
\* step after its cancellation handling (it is queued and will be skipped, or
\* it has ended as cancelled), and once the jobs have run the job state
\* describes the f2 job.
C11_ReplacedJobStopsAndStateDescribesNewJob ==
    /\ \A j \in JobIds :
          jobs[j].cancelled_by = "prepare_file"
              => jobs[j].pc \in {"queued", "skipped", "cancelled"}
    /\ (Quiescent /\ active_jobs # 0 /\ jobs[active_jobs].pc = "finished")
          => /\ job_state.filename = _normalize_job_input(jobs[active_jobs].file)
             /\ (job_state.status = "completed"
                    => job_state.file_path = _resolve_remote_path(jobs[active_jobs].file))

C13_CacheUsedIffMetaMatchesListing ==
    [][\A j \in JobIds :
          /\ (jobs[j].pc = "lookup" /\ jobs'[j].pc \in {"open", "finished"}
                /\ jobs'[j].outcome # "lookup failed")
             => /\ jobs'[j].outcome = "cached"
                    <=> (cache.file.present /\ cache.meta = listing[jobs[j].file])
                /\ jobs'[j].outcome # "cached" <=> jobs'[j].pc = "open"
          /\ (jobs[j].pc = "meta" /\ jobs'[j].pc = "finished")
             => cache'.meta = jobs[j].file_info]_vars

C13_Witness ==
    \E j \in JobIds :
        /\ jobs[j].outcome = "cached"
        /\ job_state.status = "completed"
        /\ job_state.file_path = jobs[j].file
        /\ \E i \in JobIds : i < j /\ jobs[i].outcome = "downloaded"

(***************************************************************************)
(* Claims about the sessions                                               *)
(***************************************************************************)
\* C14: in every reachable state of every printer, printer_online = false
\* implies ams.total_ams = 0 (no AMS unit), also after a payload was merged and
\* assembled while the printer is marked offline.
C14_OfflineImpliesNoAms ==
    \A p \in Printers : ~state[p].printer_online => state[p].total_ams = 0

(***************************************************************************)
(* Claims about back-pressure and empty diffs                              *)
(***************************************************************************)
\* C15: when a broadcast finds the queue of a subscriber full (200 items), the
\* subscriber leaves the subscriber set and its queue holds the sentinel and
\* nothing else; nothing is enqueued for a subscriber that is not in the set;
\* and the serving loop ends when it reads the sentinel.
C15_FullSubscriberDroppedWithSentinel ==
    [][\A s \in SubIds :
          /\ (s \in subscribers /\ Len(sub[s].queue) = QUEUE_MAXSIZE
                /\ versions'[sub[s].printer_id] # versions[sub[s].printer_id])
             => /\ s \notin subscribers'
                /\ sub'[s].queue = <<Sentinel>>
          /\ (s \notin subscribers /\ sub[s].status = "open")
             => sub'[s].queue \in {sub[s].queue, Tail(sub[s].queue)}
          /\ (sub[s].status = "open" /\ sub[s].queue # <<>>
                /\ Head(sub[s].queue) = Sentinel /\ sub'[s].queue # sub[s].queue)
             => sub'[s].status = "closed"]_vars

C15_Witness ==
    /\ sub["s1"].status = "closed"
    /\ "s1" \notin subscribers
    /\ sub["s1"].queue = <<>>
    /\ Applied = QUEUE_MAXSIZE + 1

\* C16: a state update after which no field of the printer's state differs from
\* the state held in the cached snapshot emits no event to any subscriber and
\* leaves the printer's stream version unchanged.
C16_NoChangeNoEvent ==
    [][\A p \in Printers :
          (snapshots[p].present /\ applied'[p] = applied[p] + 1
             /\ state'[p] = snapshots[p].state)
          => /\ versions'[p] = versions[p]
             /\ \A s \in SubIds : sub'[s].queue = sub[s].queue]_vars

\* The channel an event belongs to, by the head of its message.
ChannelOfEvent(event) ==
    IF event.message[1] \in {"Print finished", "Print paused"} THEN _SNAPSHOT_CHANNEL_STATE
    ELSE IF event.message[1] = "Print error detected: " THEN _SNAPSHOT_CHANNEL_PRINT_ERROR
    ELSE _SNAPSHOT_CHANNEL_HMS

\* The events a step put at the head of a printer's queue.
NewEvents(p) ==
    IF Len(events'[p]) > Len(events[p])
    THEN SubSeq(events'[p], 1, Len(events'[p]) - Len(events[p]))
    ELSE <<>>

EmittedOn(p, channel) ==
    Cardinality({i \in 1..Len(NewEvents(p)) : ChannelOfEvent(NewEvents(p)[i]) = channel})

\* C17: for each printer and channel a step of the event service emits at most
\* one event, none when the channel's normalized value stays what it was, and
\* exactly one when gcode_state changes into FINISH or PAUSE.
C17_OneEventPerChannelChange ==
    [][\A p \in Printers, ch \in Channels :
          /\ EmittedOn(p, ch) <= 1
          /\ event_snapshots'[<<p, ch>>] = event_snapshots[<<p, ch>>]
             => EmittedOn(p, ch) = 0
          /\ (ch = _SNAPSHOT_CHANNEL_STATE
                /\ event_snapshots'[<<p, ch>>] # event_snapshots[<<p, ch>>]
                /\ event_snapshots'[<<p, ch>>].value \in _INTERESTING_STATES)
             => /\ EmittedOn(p, ch) = 1
                /\ \E i \in 1..Len(NewEvents(p)) :
                      NewEvents(p)[i].message =
                          IF event_snapshots'[<<p, ch>>].value = "FINISH"
                          THEN <<"Print finished">> ELSE <<"Print paused">>]_vars

C17_Witness ==
    /\ Len(events["p1"]) = MaxEvents
    /\ \E i \in 1..MaxEvents : events["p1"][i].message = <<"Print finished">>
    /\ \E i \in 1..MaxEvents : events["p1"][i].message[1] = "HMS error detected: "
    /\ event_snapshots[<<"p1", _SNAPSHOT_CHANNEL_STATE>>] = Value("FINISH")
    /\ events["p2"] = <<>>

\* The sessions that were claimed, not released and seen within the TTL.
LiveViewers ==
    {sid \in SessionIds :
        /\ viewers[sid].claimed
        /\ ~viewers[sid].released
        /\ monotonic - viewers[sid].last_seen <= ttl_seconds}

\* C18: at every moment at most max_viewers sessions are claimed, not released
\* and last seen within the TTL, whatever the order of claim, keepalive and
\* release.
C18_LiveViewersWithinCap == Cardinality(LiveViewers) <= max_viewers

C18_Witness ==
    /\ issued = MaxSessions
    /\ Cardinality(LiveViewers) = max_viewers
    /\ \E sid \in SessionIds : viewers[sid].claimed /\ ~viewers[sid].released
                                  /\ sid \notin LiveViewers

\* A session that was claimed and not released, and was last seen more than
\* ttl_seconds ago.
Expired(sid) ==
    /\ viewers[sid].claimed
    /\ ~viewers[sid].released
    /\ monotonic - viewers[sid].last_seen > ttl_seconds

\* C19: once more than ttl_seconds have passed since a session was claimed or
\* last kept alive it is dead: no keepalive refreshes it any more, and after
\* the next claim it holds no slot.
C19_ExpiredSessionStaysDead ==
    [][\A sid \in SessionIds :
          Expired(sid)
          => /\ viewers'[sid].last_seen = viewers[sid].last_seen
             /\ _sessions'[sid].present => _sessions'[sid].ts = _sessions[sid].ts]_vars

\* C20: the FTPS status becomes "connected" only when the control connection
\* has stayed connected for the debounce that follows its connect.
C20_ConnectedOnlyAfterDebounce ==
    [][(link'.ftps_status = "connected" /\ link.ftps_status # "connected")
          => /\ link'.client
             /\ ftp_time' - link'.connected_at >= _stable_connect_delay]_vars

\* C21: when an upload_stream call that put the upload state into "preparing"
\* has returned or raised, the state is inactive in one of the terminal
\* statuses completed, cancelled or error.
C21_UploadEndsInTerminalStatus ==
    upload.pc = "returned"
    => /\ ~_upload_state.active
       /\ _upload_state.status \in {"completed", "cancelled", "error"}

\* C22: while the camera is gated off and its loop waits for the gate, not
\* streaming, the published camera status is "paused".
C22_GatedCameraIsPaused ==
    (cam_engine.reconnect_paused /\ cam_engine.pc = "pause_wait") => cam_engine.status = "paused"

\* C23: within one connection each read timeout adds one to stall_count and
\* leaves the status stall_warning after the first and second and
\* reconnecting after the third; a kept frame resets stall_count to 0 and
\* publishes streaming.
C23_StallsCountedFramesReset ==
    [][/\ (cam_engine.pc = "read" /\ cam_engine'.stall_count # cam_engine.stall_count /\ cam_engine'.stall_count # 0)
          => /\ cam_engine'.stall_count = cam_engine.stall_count + 1
             /\ cam_engine'.stall_count \in {1, 2} => cam_engine'.status = "stall_warning" /\ cam_engine'.pc = "read"
             /\ cam_engine'.stall_count = 3 => cam_engine'.status = "reconnecting" /\ cam_engine'.pc # "read"
             /\ cam_engine'.stall_count <= 3
       /\ (cam_engine.pc = "read" /\ cam_engine'.frame_count = cam_engine.frame_count + 1)
          => cam_engine'.stall_count = 0 /\ cam_engine'.status = "streaming"]_vars

C23_Witness ==
    /\ cam_engine.pc = "read"
    /\ cam_engine.stall_count = 2
    /\ cam_engine.status = "stall_warning"
    /\ cam_engine.frame_count = MaxFrames

\* C24: after ServiceRegistry.shutdown has returned no background task of the
\* registry's services runs: the orchestrator's loop, the MQTT loop, the
\* presence watchers, the camera engine's loop and the relay monitor are gone.
C24_NoTaskAfterShutdown ==
    ~lifecycle_started
    => /\ ~conn.running
       /\ ~presence.is_running
       /\ \A g \in Gens : /\ services[g].mqtt = "stopped"
                          /\ ~services[g].camera
                          /\ ~services[g].relay

\* C25: a subscriber whose client has disconnected is not in the stream
\* service's subscriber set, also when the client left before the first
\* event was sent.
C25_GoneClientNotSubscribed ==
    \A s \in subscribers : sub[s].status = "open"

\* The master after the i-th payload was merged.
MasterAfter(i) == IF i = Len(merged) THEN master_data ELSE merged[i + 1].before

\* C26: merging P1 and then P2 into a raw master gives the same master as
\* merging merge(P1, P2) into it.
C26_MergeOfMergedPayloads ==
    \A i \in 1..(Len(merged) - 1) :
        MasterAfter(i + 1)
          = _deep_merge_dict(merged[i].before,
                             _deep_merge_dict(merged[i].payload, merged[i + 1].payload))

\* The values the claim calls sentinels: null, the empty string, "?", "0/0"
\* and strings of whitespace only.
is_sentinel_value(value) ==
    \/ value.kind = "null"
    \/ /\ value.kind = "str"
       /\ \/ value.text \in {<<>>, <<"?">>, <<"0/0">>}
          \/ \A i \in 1..Len(value.text) : value.text[i] = " "

\* What one merge has to keep: a value the master held under a key stays
\* unless the payload gives that key a value that is an update; two objects
\* under one key are merged, keeping the same way.
RECURSIVE Kept(_, _, _)
Kept(before, payload, after) ==
    \A key \in DOMAIN before.items :
        LET held == before.items[key]
            given == key \in DOMAIN payload.items
        IN IF given /\ payload.items[key].kind = "dict" /\ held.kind = "dict"
           THEN /\ key \in DOMAIN after.items
                /\ after.items[key].kind = "dict"
                /\ Kept(held, payload.items[key], after.items[key])
           ELSE IF given /\ ~is_sentinel_value(payload.items[key])
           THEN TRUE
           ELSE is_sentinel_value(held)
                \/ (key \in DOMAIN after.items /\ after.items[key] = held)

\* C27: after a payload is merged, every non-sentinel value the raw master
\* held, at any depth, is still there unless the payload gave a non-sentinel
\* replacement: null, "", "?", "0/0" and whitespace-only strings never
\* overwrite or remove a value.
C27_SentinelsNeverOverwrite ==
    \A i \in 1..Len(merged) : Kept(merged[i].before, merged[i].payload, MasterAfter(i))

C27_Witness ==
    /\ Len(merged) = 3
    /\ merged[2].payload = JsonDict([key \in {"a"} |-> JsonDict([k \in {"x"} |-> JsonStr(<<"0/0">>)])])
    /\ merged[3].payload = JsonDict([key \in {"a"} |-> JsonStr(<<" ">>)])
    /\ master_data = JsonDict([key \in {"a"} |-> JsonDict([k \in {"x"} |-> JsonStr(<<"v1">>)])])

\* min(60 s, base * 1.8^k), in milliseconds.
RECURSIVE ExpectedDelay(_, _)
ExpectedDelay(base, k) ==
    IF k = 0 THEN Min(60000, base)
    ELSE Min(60000, (ExpectedDelay(base, k - 1) * 18) \div 10)

\* C28: the delay a retry loop sleeps after its k-th consecutive failure
\* since the last success (k counted from 0) lies within 10% of
\* min(60 s, base * 1.8^k), base being the loop's first delay.
C28_DelaysFollowBackoff ==
    \A l \in RetryLoops :
        (last_retry.loop = l /\ retry_failures[l] > 0)
        => LET expected == ExpectedDelay(BackoffOf(l).base_delay, retry_failures[l] - 1)
           IN /\ 10 * last_retry.delay >= 9 * expected
              /\ 10 * last_retry.delay <= 11 * expected

\* C29: whatever delete_printer requests have run, overlapping or not, at
\* least one printer definition is configured and the default printer id is
\* the id of a configured printer.
C29_OnePrinterAlwaysRemains ==
    /\ config.printers # <<>>
    /\ config.default_printer_id \in Ids(config.printers)

\* C30: whatever the readers do to the values get_state and get_master_data
\* handed them, at any depth, the store's snapshot and raw master hold what
\* the writer last put there.
C30_ReadersNeverChangeTheStore ==
    /\ Contents(heap, store_refs.state) = written.state
    /\ Contents(heap, store_refs.master_data) = written.master_data

\* C31: whatever the payload carried, the assembled remaining_time is a
\* non-negative number of minutes, and finish_time is "-" exactly when
\* remaining_time is zero.
C31_RemainingNonNegativeFinishDash ==
    /\ print_status.remaining_time >= 0
    /\ (print_status.finish_time = <<"-">>) <=> (print_status.remaining_time = 0)

\* The number of requests of ip that the limiter let through and that were
\* made no more than a window before now.
InWindow(ip, now) ==
    Cardinality({i \in 1..Len(passed[ip]) : now - passed[ip][i] <= _rate_window_s})

\* C32: of the requests of one source ip, no more than 5 pass the limiter
\* within any 60 seconds; a request of an allowed ip is answered 429 exactly
\* when 5 requests of that ip passed within the 60 seconds before it, so the
\* sixth is rejected and requests pass again once earlier ones are older
\* than the window.
C32_FivePerWindow ==
    /\ \A ip \in Ips : \A i \in 1..Len(passed[ip]) :
           Cardinality({j \in 1..i : passed[ip][i] - passed[ip][j] <= _rate_window_s})
               <= _rate_limit
    /\ last_request.status = 429
           => InWindow(last_request.ip, last_request.time) >= _rate_limit
    /\ last_request.status \in {200, 401}
           => /\ passed[last_request.ip][Len(passed[last_request.ip])] = last_request.time
              /\ InWindow(last_request.ip, last_request.time) - 1 < _rate_limit

\* A sixth request was rejected and, the window over, the next one passed.
C32_Witness ==
    /\ limited["10.0.0.1"] > 0
    /\ Len(passed["10.0.0.1"]) = _rate_limit + 1
    /\ last_request = [ip |-> "10.0.0.1", time |-> 90, status |-> 200]
    /\ passed["10.0.0.1"][_rate_limit] = 0

\* C33: every connected subscriber, having applied its seeding snapshot and
\* the events queued for it, holds the state of the stream service's cached
\* snapshot of its printer.
C33_ClientHoldsCachedSnapshot ==
    \A s \in subscribers :
        sub[s].status = "open" => client_state[s] = snapshots[sub[s].printer_id].state

\* C34: PrintJobService.shutdown, once called, returns, whatever the prepare
\* queue and its job were doing at that moment.
C34_ShutdownReturns == (sd # "idle") ~> (sd = "returned")

\* C35: a status reported by an FTPS service is written to the state of the
\* printer this service was built for, and to no other.
C35_StatusGoesToOwnPrinter ==
    last_status_write.instance # 0
        => ftps_instances[last_status_write.instance].printer = last_status_write.printer

\* C36: while the MQTT service of the active printer holds no session, the
\* state of its printer says printer_online = false.
C36_NoSessionMeansOffline ==
    session[ConfiguredPrinter] = "closed" => ~state[ConfiguredPrinter].printer_online

\* C37: whenever the meta of the cached file validates against the listing of
\* a remote file and the extraction directory exists, the directory was
\* extracted from the version of the file that the meta describes.  Violated:
\* a download writes the file and its meta, and when the extraction that
\* follows is cancelled or fails on a bad archive, the directory of the older
\* version stays next to the new meta.
C37_ExtractionMatchesValidMeta ==
    \A f \in RemoteFiles :
        (/\ is_valid(cache, _normalize_job_input(f), listing[f].modified,
                     listing[f].size, _resolve_remote_path(f))
         /\ extract_dir.present)
        => /\ extract_dir = cache.file
           /\ extract_dir.modified = cache.meta.modified
           /\ extract_dir.size = cache.meta.size

\* C38: while upload d is being transferred, and every other call either
\* returned before d began or began during the transfer, the reported state is
\* that of d with the progress of d, and a cancel_upload that returned True
\* has set the event the thread of d holds.  Violated: upload_stream replaces
\* the state and the cancel event before it finds the other upload running.
C38_RejectedCallLeavesRunningUpload ==
    \A d \in CallIds :
        (/\ upload_calls[d].pc = "transfer"
         /\ upload_calls[d].alone
         /\ \A c \in CallIds \ {d} : c < d \/ upload_calls[c].pc = "none"
                                           \/ upload_calls[c].during = d)
        => /\ upload_status.generation = upload_calls[d].generation
           /\ upload_status.sent = upload_calls[d].sent
           /\ upload_status.status \in {"running", "cancelling"}
           /\ upload_calls[d].cancel_accepted => upload_calls[d].event \in events_set

\* C39: an upload ends as cancelled only when a cancel_upload was made while
\* it was in progress.  Violated: a cancel_upload made while no upload is
\* active sets _upload_cancel_requested, and the next upload finds it set.
C39_CancelAffectsOnlyActiveUpload ==
    \A c \in CallIds :
        upload_calls[c].result = "UploadCancelledError" => upload_calls[c].cancel_seen

\* C40: once stop() of a service has returned, and until start() is called
\* again from outside, none of its loop tasks is running.  Violated by the
\* presence watcher: its _handle_task_crash clears the task attribute and
\* keeps the flag, so a stop() called before the scheduled start() runs finds
\* no task and returns, and the start() then makes a new loop task.
C40_NoLoopAfterStop ==
    \A k \in Services :
        lifecycle[k].stopped = "returned"
        => \A t \in TaskIds : lifecycle[k].status[t] \notin {"running", "cancelling"}

\* The same for the two services whose _handle_task_crash clears the flag:
\* their stop() raises the task's exception instead of returning.
StopOfFlagServicesLeavesNoLoop ==
    \A k \in {"mqtt", "orchestrator"} :
        lifecycle[k].stopped = "returned"
        => \A t \in TaskIds : lifecycle[k].status[t] \notin {"running", "cancelling"}

====
